---- MODULE Spec2Model ----
(***************************************************************************)
(* Model of the PAX calculator core (lib/pax-calculator): time parsing    *)
(* and formatting, the PAX conversion, class lookup and the validation of  *)
(* a PAX index; and of the stores built on it (lib/stores): paxData,       *)
(* preferences, calculator and the stores derived from them.               *)
(*                                                                         *)
(* Representation of values                                                *)
(*   - a JavaScript string is a sequence of one-character strings;         *)
(*   - a JavaScript number holding a time is an integer count of ticks,    *)
(*     TicksPerMs ticks to the millisecond (so 0.9995 s is 9995 ticks and  *)
(*     times finer than a millisecond exist); a paxIndex is an integer     *)
(*     count of thousandths (0.844 is 844);                                *)
(*   - arithmetic on numbers is exact: a product or quotient is carried    *)
(*     as a fraction p/q of ticks until toFixed rounds it.  The rounding   *)
(*     error of binary floating point is not modelled, and -0 is           *)
(*     identified with 0 (no comparison in the code tells them apart);     *)
(*   - a PaxIndex is a record of its year, indexType, version,             *)
(*     classGroups and classesByCode (the dates are read by no function);  *)
(*     classGroups says whether the array is there at all, classesByCode   *)
(*     is a function from its own keys to classes, read through the        *)
(*     prototype chain of a plain object;                                  *)
(*   - a message of the validator is a record of its fixed text (kind)     *)
(*     and of the values interpolated into it.                             *)
(***************************************************************************)
EXTENDS Integers, Sequences, FiniteSets, TLC

VARIABLES
    pc,     \* the function about to be invoked, or "returned" after the call
    conv,   \* calculatePaxTime: arguments and outcome
    parse,  \* parseTimeString: argument and outcome
    fmt,    \* formatTime: argument and outcome
    diff,   \* formatTimeDifference: argument and outcome
    val,    \* validatePaxIndex: argument and outcome
    look,   \* findClassByCode: arguments and outcome
    act,    \* getActiveClasses: argument and outcome
    back,   \* calculatePaxTime called on the outputTime of conv, the classes
            \* swapped: arguments and outcome
    calculator,   \* the value of the calculator store
    preferences,  \* the value of the preferences store
    paxData,      \* the value of the paxData store
    storage,      \* localStorage: the item under each of STORAGE_KEYS
    dataset,      \* a PAX index that several callers hold
    callers       \* each caller's call on dataset: its position, its local
                  \* variables and its outcome

vars == <<pc, conv, parse, fmt, diff, val, look, act, back, calculator,
          preferences, paxData, storage, dataset, callers>>

\* the calls on a PAX index
dataVars == <<val, look, act>>

\* the stores and what they persist
storeVars == <<calculator, preferences, paxData, storage>>

\* the callers sharing a PAX index
callVars == <<dataset, callers>>

----------------------------------------------------------------------------
(* Bounds and value domains *)

\* times 0 .. MaxTicks (in ticks) are all tried as inputTime
MaxTicks == 30

\* a PAX index has at most MaxGroups class groups and, over all its groups,
\* at most MaxClasses classes
MaxGroups == 2
MaxClasses == 3

\* every string over ShortAlphabet of at most MaxLen characters is parsed
MaxLen == 5

\* resolution of the number representation: ticks per millisecond
TicksPerMs == 10

\* toFixed(3) and ms / 1000: milliseconds per second
MsPerSecond == 1000

Abs(n) == IF n < 0 THEN -n ELSE n

\* An unrounded number is a fraction [p, q] with q > 0: p / q ticks.
\* n * x, x - n and x < 0 for a number n in ticks and a fraction x
Times(n, x) == [p |-> n * x.p, q |-> x.q]
Minus(x, n) == [p |-> x.p - n * x.q, q |-> x.q]
Negative(x) == x.p < 0

DigitChars == {"0", "1", "2", "3", "4", "5", "6", "7", "8", "9"}

DigitVal == [c \in DigitChars |->
               CASE c = "0" -> 0 [] c = "1" -> 1 [] c = "2" -> 2 [] c = "3" -> 3
                 [] c = "4" -> 4 [] c = "5" -> 5 [] c = "6" -> 6 [] c = "7" -> 7
                 [] c = "8" -> 8 [] c = "9" -> 9]

DigitChar == [d \in 0..9 |-> CHOOSE c \in DigitChars : DigitVal[c] = d]

IsDigits(s) == \A i \in 1..Len(s) : s[i] \in DigitChars

\* outcome of a call: a returned value or a thrown Error with its message
NoCall == [status |-> "none", error |-> "", value |-> 0]
Return(v) == [status |-> "ok", error |-> "", value |-> v]
Throw(msg) == [status |-> "error", error |-> msg, value |-> 0]

----------------------------------------------------------------------------
(* Number.prototype.toFixed(3), Number(string), parseInt, padEnd *)

RECURSIVE IntToString(_)
\* decimal digits of a non-negative integer, no leading zeros
IntToString(n) ==
    IF n < 10 THEN <<DigitChar[n]>>
    ELSE IntToString(n \div 10) \o <<DigitChar[n % 10]>>

\* mutant of FractionDigits: the fraction is written without its leading zeros
FractionDigitsUnpadded(f) == IntToString(f)

\* the three fraction digits of toFixed(3): f in 0..999, zero padded on the left
FractionDigits(f) ==
    <<DigitChar[f \div 100], DigitChar[(f \div 10) % 10], DigitChar[f % 10]>>

\* mutant of NearestMs: the digits beyond the third decimal are cut off
NearestMsTruncating(x) == x.p \div (x.q * TicksPerMs)

\* for x >= 0: the integer n with n / 1000 closest to x; of two such n, the
\* larger
NearestMs(x) ==
    LET ms == x.q * TicksPerMs
    IN  (x.p \div ms) + (IF 2 * (x.p % ms) >= ms THEN 1 ELSE 0)

\* x.toFixed(3): a negative x gives "-" followed by (-x).toFixed(3)
ToFixed3(x) ==
    LET n == NearestMs([p |-> Abs(x.p), q |-> x.q])
    IN  (IF x.p < 0 THEN <<"-">> ELSE <<>>)
          \o IntToString(n \div MsPerSecond) \o <<".">>
          \o FractionDigits(n % MsPerSecond)

RECURSIVE ParseInt(_)
\* parseInt of a non-empty string of decimal digits
ParseInt(s) ==
    IF Len(s) = 0 THEN 0
    ELSE 10 * ParseInt(SubSeq(s, 1, Len(s) - 1)) + DigitVal[s[Len(s)]]

\* Number(s) for a string produced by toFixed(3), in ticks
ToNumber(s) ==
    LET neg == Len(s) > 0 /\ s[1] = "-"
        body == IF neg THEN Tail(s) ELSE s
        dot == CHOOSE i \in 1..Len(body) : body[i] = "."
        whole == ParseInt(SubSeq(body, 1, dot - 1))
        frac == ParseInt(SubSeq(body, dot + 1, Len(body)))
        ms == whole * MsPerSecond + frac
    IN  (IF neg THEN -ms ELSE ms) * TicksPerMs

----------------------------------------------------------------------------
(* calculatePaxTime *)

ErrInputTime == "Input time must be greater than 0"
ErrPaxIndices == "PAX indices must be greater than 0"

\* mutant of PaxRatio: the ratio is taken the wrong way round
PaxRatioInverted(inputClass, outputClass) ==
    [p |-> outputClass.paxIndex, q |-> inputClass.paxIndex]

\* inputClass.paxIndex / outputClass.paxIndex
PaxRatio(inputClass, outputClass) ==
    [p |-> inputClass.paxIndex, q |-> outputClass.paxIndex]

\* mutant of calculatePaxTime: the PAX indices are checked before the time
calculatePaxTimeIndicesFirst(inputTime, inputClass, outputClass, now) ==
    IF inputClass.paxIndex <= 0 \/ outputClass.paxIndex <= 0
    THEN Throw(ErrPaxIndices)
    ELSE IF inputTime <= 0 THEN Throw(ErrInputTime)
    ELSE
      LET outputTime == Times(inputTime, PaxRatio(inputClass, outputClass))
          timeDifference == Minus(outputTime, inputTime)
      IN Return([inputTime |-> inputTime,
                 inputClass |-> inputClass,
                 outputTime |-> ToNumber(ToFixed3(outputTime)),
                 outputClass |-> outputClass,
                 timeDifference |-> ToNumber(ToFixed3(timeDifference)),
                 isFaster |-> Negative(timeDifference),
                 calculatedAt |-> now])

calculatePaxTime(inputTime, inputClass, outputClass, now) ==
    IF inputTime <= 0 THEN Throw(ErrInputTime)
    ELSE IF inputClass.paxIndex <= 0 \/ outputClass.paxIndex <= 0
         THEN Throw(ErrPaxIndices)
    ELSE
      LET outputTime == Times(inputTime, PaxRatio(inputClass, outputClass))
          timeDifference == Minus(outputTime, inputTime)
      IN Return([inputTime |-> inputTime,
                 inputClass |-> inputClass,
                 outputTime |-> ToNumber(ToFixed3(outputTime)),
                 outputClass |-> outputClass,
                 timeDifference |-> ToNumber(ToFixed3(timeDifference)),
                 isFaster |-> Negative(timeDifference),
                 calculatedAt |-> now])

----------------------------------------------------------------------------
(* parseTimeString *)

ErrEmpty == "Time string cannot be empty"
ErrFormat == "Invalid time format"

WhiteSpace == {" ", "\t"}

\* mutant of Trim: only the leading white space is removed
TrimStart(s) ==
    LET black == {i \in 1..Len(s) : s[i] \notin WhiteSpace}
    IN  IF black = {} THEN <<>>
        ELSE SubSeq(s, CHOOSE i \in black : \A j \in black : i <= j, Len(s))

\* String.prototype.trim
Trim(s) ==
    LET black == {i \in 1..Len(s) : s[i] \notin WhiteSpace}
    IN  IF black = {} THEN <<>>
        ELSE SubSeq(s, CHOOSE i \in black : \A j \in black : i <= j,
                       CHOOSE i \in black : \A j \in black : i >= j)

\* a capture group \d{lo,hi} holding s[from..to]
Group(s, from, to, lo, hi) ==
    /\ to - from + 1 >= lo
    /\ to - from + 1 <= hi
    /\ \A i \in from..to : s[i] \in DigitChars

\* /^(\d+):(\d{1,2})\.(\d{1,3})$/ : the positions <<colon, dot>> of a match
minutesMatch(s) ==
    {m \in (1..Len(s)) \X (1..Len(s)) :
        /\ s[m[1]] = ":" /\ s[m[2]] = "."
        /\ Group(s, 1, m[1] - 1, 1, Len(s))
        /\ Group(s, m[1] + 1, m[2] - 1, 1, 2)
        /\ Group(s, m[2] + 1, Len(s), 1, 3)}

\* /^(\d+):(\d{1,2}):(\d{1,2})\.(\d{1,3})$/ : <<colon, colon, dot>>
hoursMatch(s) ==
    {m \in (1..Len(s)) \X (1..Len(s)) \X (1..Len(s)) :
        /\ s[m[1]] = ":" /\ s[m[2]] = ":" /\ s[m[3]] = "."
        /\ Group(s, 1, m[1] - 1, 1, Len(s))
        /\ Group(s, m[1] + 1, m[2] - 1, 1, 2)
        /\ Group(s, m[2] + 1, m[3] - 1, 1, 2)
        /\ Group(s, m[3] + 1, Len(s), 1, 3)}

\* /^(\d+)\.(\d{1,3})$/ : <<dot>>
decimalMatch(s) ==
    {m \in 1..Len(s) :
        /\ s[m] = "."
        /\ Group(s, 1, m - 1, 1, Len(s))
        /\ Group(s, m + 1, Len(s), 1, 3)}

\* /^(\d+)$/
wholeMatch(s) == Group(s, 1, Len(s), 1, Len(s))

\* mutant of PadEnd3: the zeros are put in front
PadStart3(s) == IF Len(s) >= 3 THEN s ELSE [i \in 1..(3 - Len(s)) |-> "0"] \o s

\* milliseconds.padEnd(3, '0')
PadEnd3(s) == IF Len(s) >= 3 THEN s ELSE s \o [i \in 1..(3 - Len(s)) |-> "0"]

\* totalSeconds + ms / 1000, in ticks
SecondsAndMs(totalSeconds, ms) == (totalSeconds * MsPerSecond + ms) * TicksPerMs

parseTimeString(timeString) ==
    IF timeString = <<>> \/ Trim(timeString) = <<>> THEN Throw(ErrEmpty)
    ELSE
      LET cleaned == Trim(timeString)
          n == Len(cleaned)
      IN  IF minutesMatch(cleaned) # {} THEN
            LET m == CHOOSE m \in minutesMatch(cleaned) : TRUE
                minutes == SubSeq(cleaned, 1, m[1] - 1)
                seconds == SubSeq(cleaned, m[1] + 1, m[2] - 1)
                milliseconds == SubSeq(cleaned, m[2] + 1, n)
                totalSeconds == ParseInt(minutes) * 60 + ParseInt(seconds)
                ms == ParseInt(PadEnd3(milliseconds))
            IN  Return(SecondsAndMs(totalSeconds, ms))
          ELSE IF hoursMatch(cleaned) # {} THEN
            LET m == CHOOSE m \in hoursMatch(cleaned) : TRUE
                hours == SubSeq(cleaned, 1, m[1] - 1)
                minutes == SubSeq(cleaned, m[1] + 1, m[2] - 1)
                seconds == SubSeq(cleaned, m[2] + 1, m[3] - 1)
                milliseconds == SubSeq(cleaned, m[3] + 1, n)
                totalSeconds == ParseInt(hours) * 3600 + ParseInt(minutes) * 60
                                  + ParseInt(seconds)
                ms == ParseInt(PadEnd3(milliseconds))
            IN  Return(SecondsAndMs(totalSeconds, ms))
          ELSE IF decimalMatch(cleaned) # {} THEN
            LET m == CHOOSE m \in decimalMatch(cleaned) : TRUE
                seconds == SubSeq(cleaned, 1, m - 1)
                milliseconds == SubSeq(cleaned, m + 1, n)
                ms == ParseInt(PadEnd3(milliseconds))
            IN  Return(SecondsAndMs(ParseInt(seconds), ms))
          ELSE IF wholeMatch(cleaned) THEN
            Return(SecondsAndMs(ParseInt(cleaned), 0))
          ELSE Throw(ErrFormat)

----------------------------------------------------------------------------
(* formatTime *)

ErrNegative == "Time cannot be negative"

formatTime(seconds) ==
    IF seconds < 0 THEN Throw(ErrNegative)
    ELSE Return(ToFixed3([p |-> seconds, q |-> 1]))

----------------------------------------------------------------------------
(* formatTimeDifference *)

\* mutant of formatTimeDifference: zero gets the plus sign too
formatTimeDifferencePlusAtZero(difference) ==
    Return((IF difference >= 0 THEN <<"+">> ELSE <<>>)
             \o ToFixed3([p |-> difference, q |-> 1]))

formatTimeDifference(difference) ==
    Return((IF difference > 0 THEN <<"+">> ELSE <<>>)
             \o ToFixed3([p |-> difference, q |-> 1]))

----------------------------------------------------------------------------
(* PaxIndex, SoloClassGroup, SoloClass *)

\* the place of a SoloClass where there is none
NoClass == [code |-> "", name |-> "", paxIndex |-> 0, isActive |-> FALSE]

\* the place of a SoloClassGroup where there is none
NoGroup == [id |-> "", name |-> "", description |-> "", classes |-> <<>>]

IndexTypes == {"Solo", "ProSolo"}

\* an array property of an object that came from outside: present or not
Array(items) == [defined |-> TRUE, items |-> items]
MissingArray == [defined |-> FALSE, items |-> <<>>]

\* the properties every plain object inherits from Object.prototype
ObjectPrototypeKeys == {"constructor", "toString"}

----------------------------------------------------------------------------
(* findClassByCode *)

\* the values a property read on classesByCode can give
OwnClass(soloClass) == [type |-> "SoloClass", class |-> soloClass, member |-> ""]
Inherited(key) == [type |-> "inherited", class |-> NoClass, member |-> key]
Undefined == [type |-> "undefined", class |-> NoClass, member |-> ""]

\* classesByCode[classCode]: an own property, else one found on the
\* prototype of the object, else undefined
GetProperty(object, key) ==
    IF key \in DOMAIN object THEN OwnClass(object[key])
    ELSE IF key \in ObjectPrototypeKeys THEN Inherited(key)
    ELSE Undefined

findClassByCode(classCode, paxIndex) ==
    Return(GetProperty(paxIndex.classesByCode, classCode))

----------------------------------------------------------------------------
(* getActiveClasses *)

ErrNoFlatMap == "TypeError: Cannot read properties of undefined (reading 'flatMap')"

\* classGroups.flatMap((group) => group.classes)
RECURSIVE FlatMapClasses(_)
FlatMapClasses(groups) ==
    IF groups = <<>> THEN <<>>
    ELSE Head(groups).classes \o FlatMapClasses(Tail(groups))

\* mutant of getActiveClasses: the filter is left out
getActiveClassesUnfiltered(paxIndex) ==
    IF ~paxIndex.classGroups.defined THEN Throw(ErrNoFlatMap)
    ELSE Return(FlatMapClasses(paxIndex.classGroups.items))

getActiveClasses(paxIndex) ==
    IF ~paxIndex.classGroups.defined THEN Throw(ErrNoFlatMap)
    ELSE Return(SelectSeq(FlatMapClasses(paxIndex.classGroups.items),
                          LAMBDA soloClass : soloClass.isActive))

----------------------------------------------------------------------------
(* validatePaxIndex *)

MinYear == 2000
MaxYear == 2100
MinTypicalPax == 700
MaxTypicalPax == 1000

ErrNotIterable == "TypeError: paxIndex.classGroups is not iterable"

\* the messages: the fixed text and the values interpolated into it
Message(kind, text, class, group, a, b) ==
    [kind |-> kind, text |-> text, class |-> class, group |-> group,
     a |-> a, b |-> b]

InvalidYear(year) == Message("Invalid year", "", NoClass, NoGroup, year, 0)
InvalidIndexType(indexType) ==
    Message("Invalid index type", indexType, NoClass, NoGroup, 0, 0)
NoClassGroups == Message("No class groups found", "", NoClass, NoGroup, 0, 0)
GroupMissingIdOrName(group) ==
    Message("Class group missing id or name", "", NoClass, group, 0, 0)
DuplicateClassCode(code) ==
    Message("Duplicate class code", code, NoClass, NoGroup, 0, 0)
ClassMissingCodeOrName(soloClass) ==
    Message("Class missing code or name", "", soloClass, NoGroup, 0, 0)
OutsideTypicalRange(code, paxIndex) ==
    Message("PAX index outside typical range", code, NoClass, NoGroup,
            paxIndex, 0)
InvalidPaxValue(code, paxIndex) ==
    Message("Invalid PAX index", code, NoClass, NoGroup, paxIndex, 0)
CountMismatch(keys, classCount) ==
    Message("Class lookup count mismatch", "", NoClass, NoGroup, keys,
            classCount)

\* errors.push / warnings.push under a condition
PushIf(condition, messages, message) ==
    IF condition THEN Append(messages, message) ELSE messages

\* mutant of ValidateClass: the bounds of the typical range warn too
ValidateClassBoundsWarn(v, soloClass) ==
    LET code == soloClass.code
        pax == soloClass.paxIndex
    IN  [errors |->
            PushIf(pax <= 0,
                PushIf(code = "" \/ soloClass.name = "",
                    PushIf(code \in v.seenCodes, v.errors,
                           DuplicateClassCode(code)),
                    ClassMissingCodeOrName(soloClass)),
                InvalidPaxValue(code, pax)),
         warnings |->
            PushIf(pax <= MinTypicalPax \/ pax >= MaxTypicalPax, v.warnings,
                   OutsideTypicalRange(code, pax)),
         classCount |-> v.classCount + 1,
         seenCodes |-> v.seenCodes \cup {code}]

\* the body of the loop over the classes of a group; v holds the local
\* variables errors, warnings, classCount and seenCodes
ValidateClass(v, soloClass) ==
    LET code == soloClass.code
        pax == soloClass.paxIndex
    IN  [errors |->
            PushIf(pax <= 0,
                PushIf(code = "" \/ soloClass.name = "",
                    PushIf(code \in v.seenCodes, v.errors,
                           DuplicateClassCode(code)),
                    ClassMissingCodeOrName(soloClass)),
                InvalidPaxValue(code, pax)),
         warnings |->
            PushIf(pax < MinTypicalPax \/ pax > MaxTypicalPax, v.warnings,
                   OutsideTypicalRange(code, pax)),
         classCount |-> v.classCount + 1,
         seenCodes |-> v.seenCodes \cup {code}]

\* the loop over the classes of a group. The test on classCount, a count and
\* so never outside Nat, has TLC compute the locals at every iteration, as
\* the code does, and not all at once after the last class.
RECURSIVE ValidateClasses(_, _)
ValidateClasses(v, classes) ==
    IF classes = <<>> \/ v.classCount \notin Nat THEN v
    ELSE ValidateClasses(ValidateClass(v, Head(classes)), Tail(classes))

\* mutant of ValidateGroup: the classes of a group without id or name are
\* examined all the same
ValidateGroupNoSkip(v, group) ==
    ValidateClasses(
        [v EXCEPT !.errors = PushIf(group.id = "" \/ group.name = "", @,
                                    GroupMissingIdOrName(group))],
        group.classes)

\* mutant of ValidateGroup: the codes seen are forgotten from group to group
ValidateGroupOwnCodes(v, group) ==
    IF group.id = "" \/ group.name = ""
    THEN [v EXCEPT !.errors = Append(@, GroupMissingIdOrName(group))]
    ELSE ValidateClasses([v EXCEPT !.seenCodes = {}], group.classes)

\* the body of the loop over the groups
ValidateGroup(v, group) ==
    IF group.id = "" \/ group.name = ""
    THEN [v EXCEPT !.errors = Append(@, GroupMissingIdOrName(group))]
    ELSE ValidateClasses(v, group.classes)

RECURSIVE ValidateGroups(_, _)
ValidateGroups(v, groups) ==
    IF groups = <<>> THEN v
    ELSE ValidateGroups(ValidateGroup(v, Head(groups)), Tail(groups))

\* the checks made before the loops
HeaderErrors(paxIndex) ==
    PushIf(~paxIndex.classGroups.defined \/ paxIndex.classGroups.items = <<>>,
        PushIf(paxIndex.indexType = "" \/ paxIndex.indexType \notin IndexTypes,
            PushIf(paxIndex.year = 0 \/ paxIndex.year < MinYear
                     \/ paxIndex.year > MaxYear,
                   <<>>, InvalidYear(paxIndex.year)),
            InvalidIndexType(paxIndex.indexType)),
        NoClassGroups)

\* mutant of ValidationResult: the keys are counted against the distinct
\* codes seen
ValidationResultDistinctCodes(paxIndex, v) ==
    LET keys == Cardinality(DOMAIN paxIndex.classesByCode)
        errors == PushIf(keys # Cardinality(v.seenCodes), v.errors,
                         CountMismatch(keys, Cardinality(v.seenCodes)))
    IN  [isValid |-> errors = <<>>,
         errors |-> errors,
         warnings |-> v.warnings,
         classCount |-> v.classCount,
         groupCount |-> Len(paxIndex.classGroups.items)]

\* mutant of ValidationResult: a warning makes the index invalid too
ValidationResultWarningsCount(paxIndex, v) ==
    LET keys == Cardinality(DOMAIN paxIndex.classesByCode)
        errors == PushIf(keys # v.classCount, v.errors,
                         CountMismatch(keys, v.classCount))
    IN  [isValid |-> errors = <<>> /\ v.warnings = <<>>,
         errors |-> errors,
         warnings |-> v.warnings,
         classCount |-> v.classCount,
         groupCount |-> Len(paxIndex.classGroups.items)]

\* the check made after the loops and the result
ValidationResult(paxIndex, v) ==
    LET keys == Cardinality(DOMAIN paxIndex.classesByCode)
        errors == PushIf(keys # v.classCount, v.errors,
                         CountMismatch(keys, v.classCount))
    IN  [isValid |-> errors = <<>>,
         errors |-> errors,
         warnings |-> v.warnings,
         classCount |-> v.classCount,
         groupCount |-> Len(paxIndex.classGroups.items)]

validatePaxIndex(paxIndex) ==
    IF ~paxIndex.classGroups.defined
    THEN \* for...of on undefined, after the checks before the loop
         Throw(ErrNotIterable)
    ELSE Return(ValidationResult(paxIndex,
            ValidateGroups([errors |-> HeaderErrors(paxIndex),
                            warnings |-> <<>>,
                            classCount |-> 0,
                            seenCodes |-> {}],
                           paxIndex.classGroups.items)))

----------------------------------------------------------------------------
(* Inputs *)

\* input times: every tick count up to MaxTicks and a few longer runs
\* (-5 s, 0.1 s, 1 s, 1.2345 s, 60 s)
InputTimes == (-1..MaxTicks) \cup {-50000, 1000, 10000, 12345, 600000}

\* paxIndex values in thousandths, among them the non-positive ones
PaxValues == {-100, 0, 500, 700, 750, 830, 844, 900, 1000, 1500}

ClassCodes == {"SS", "AS"}

Classes == [code : ClassCodes, name : {"Class"}, paxIndex : PaxValues,
            isActive : {TRUE}]

\* values of new Date().toISOString()
Timestamps == {"t1", "t2"}

\* the class held by the argument slots of a call that is not being made
NoConvert == [args |-> [inputTime |-> 0, inputClass |-> NoClass,
                        outputClass |-> NoClass, now |-> ""],
              out |-> NoCall]
NoParse == [args |-> [timeString |-> <<>>], out |-> NoCall]
NoFormat == [args |-> [seconds |-> 0], out |-> NoCall]
NoDifference == [args |-> [difference |-> 0], out |-> NoCall]
NoStore == [created |-> FALSE]

\* the classes the groups of a PAX index are filled with: a repeated code,
\* a paxIndex above, below and at the edge of the typical range, a missing
\* code, active and inactive classes
ClassPool ==
    {[code |-> "SS", name |-> "Super Street", paxIndex |-> 844,
      isActive |-> TRUE],
     [code |-> "SS", name |-> "Super Street R", paxIndex |-> 1100,
      isActive |-> FALSE],
     [code |-> "AS", name |-> "A Street", paxIndex |-> 0, isActive |-> TRUE],
     [code |-> "", name |-> "Unnamed", paxIndex |-> 700, isActive |-> FALSE]}

\* every class over the codes, names and paxIndex values below
AnyClass ==
    [code : {"SS", ""}, name : {"Super Street", ""},
     paxIndex : {-500, 0, 1, 699, 700, 844, 1000, 1001, 1100, 2000},
     isActive : BOOLEAN]

\* id and name of a group: both present, or one or both empty
GroupHead(id, name) == [id |-> id, name |-> name]
WellFormedHead == GroupHead("street", "Street")
MalformedHeads ==
    {GroupHead("", "Street"), GroupHead("street", ""), GroupHead("", "")}

SoloClassGroup(head, classes) ==
    [id |-> head.id, name |-> head.name, description |-> "",
     classes |-> classes]

\* the shape of a sequence of g groups holding n classes in all: the id and
\* name of each group, the classes in their order and the group of each
GroupHeads == {WellFormedHead, GroupHead("", "Street")}
InOrder(groupOf) ==
    \A i, j \in DOMAIN groupOf : i < j => groupOf[i] <= groupOf[j]
Shapes(g, n) ==
    {s \in [heads : [1..g -> GroupHeads], classes : [1..n -> ClassPool],
            groupOf : [1..n -> 1..g]] : InOrder(s.groupOf)}

\* the sequence of groups of a shape
ClassGroups(s) ==
    [k \in DOMAIN s.heads |->
        LET before == Cardinality({i \in DOMAIN s.groupOf : s.groupOf[i] < k})
            within == Cardinality({i \in DOMAIN s.groupOf : s.groupOf[i] = k})
        IN  SoloClassGroup(s.heads[k],
                           [i \in 1..within |-> s.classes[before + i]])]

\* classesByCode as the data modules derive it from the groups: every class
\* of every group is stored under its code, a later one replacing an earlier
DerivedClassesByCode(groups) ==
    LET all == FlatMapClasses(groups)
        Last(code) ==
            CHOOSE i \in 1..Len(all) :
                /\ all[i].code = code
                /\ \A j \in (i + 1)..Len(all) : all[j].code # code
    IN  [code \in {all[i].code : i \in 1..Len(all)} |-> all[Last(code)]]

\* classesByCode out of step with the groups: empty, or with one more key
EmptyClassesByCode == [code \in {} |-> NoClass]
WithExtraKey(classesByCode) ==
    [code \in DOMAIN classesByCode \cup {"XS"} |->
        IF code \in DOMAIN classesByCode THEN classesByCode[code]
        ELSE [code |-> "XS", name |-> "X Street", paxIndex |-> 900,
              isActive |-> TRUE]]
\* classesByCode with as many keys as derived, but one of them renamed, or
\* every key holding a class of another paxIndex
WithRenamedKey(classesByCode) ==
    IF DOMAIN classesByCode = {} THEN classesByCode
    ELSE LET renamed == CHOOSE code \in DOMAIN classesByCode : TRUE
         IN  [code \in (DOMAIN classesByCode \ {renamed}) \cup {"XS"} |->
                 IF code = "XS" THEN classesByCode[renamed]
                 ELSE classesByCode[code]]
WithStaleClasses(classesByCode) ==
    [code \in DOMAIN classesByCode |->
        [classesByCode[code] EXCEPT !.paxIndex = 900]]

Derivations == {"derived", "empty", "extra key", "renamed key", "stale"}
ClassesByCodeFor(groups, derivation) ==
    CASE derivation = "derived" -> DerivedClassesByCode(groups)
      [] derivation = "empty" -> EmptyClassesByCode
      [] derivation = "extra key" -> WithExtraKey(DerivedClassesByCode(groups))
      [] derivation = "renamed key" ->
            WithRenamedKey(DerivedClassesByCode(groups))
      [] derivation = "stale" -> WithStaleClasses(DerivedClassesByCode(groups))

PaxIndex(year, indexType, classGroups, classesByCode) ==
    [year |-> year, indexType |-> indexType, version |-> "2024.1.0",
     classGroups |-> classGroups, classesByCode |-> classesByCode]

\* the ProSolo 2024 index as shipped (paxIndex in thousandths)
SoloClass(code, name, paxIndex, isActive) ==
    [code |-> code, name |-> name, paxIndex |-> paxIndex,
     isActive |-> isActive]

streetClasses ==
    [id |-> "street", name |-> "Street",
     description |-> "Street Category - Minimal modifications allowed",
     classes |-> <<
        SoloClass("SS", "Super Street", 844, TRUE),
        SoloClass("AS", "A Street", 830, TRUE),
        SoloClass("BS", "B Street", 821, TRUE),
        SoloClass("CS", "C Street", 806, TRUE),
        SoloClass("DS", "D Street", 806, TRUE),
        SoloClass("ES", "E Street", 787, TRUE),
        SoloClass("FS", "F Street", 815, TRUE),
        SoloClass("GS", "G Street", 787, TRUE),
        SoloClass("HS", "H Street", 776, TRUE)>>]

streetTouringClasses ==
    [id |-> "street-touring", name |-> "Street Touring",
     description |-> "Street Touring Category - Limited modifications",
     classes |-> <<
        SoloClass("AST", "A Street Touring", 832, TRUE),
        SoloClass("BST", "B Street Touring", 830, TRUE),
        SoloClass("CST", "C Street Touring", 824, TRUE),
        SoloClass("DST", "D Street Touring", 814, TRUE),
        SoloClass("EST", "E Street Touring", 809, TRUE),
        SoloClass("GST", "G Street Touring", 810, TRUE),
        SoloClass("SST", "Super Street Touring", 833, TRUE)>>]

streetPreparedClasses ==
    [id |-> "street-prepared", name |-> "Street Prepared",
     description |-> "Street Prepared Category - Significant modifications allowed",
     classes |-> <<
        SoloClass("SSP", "Super Street Prepared", 863, TRUE),
        SoloClass("CSP", "C Street Prepared", 857, TRUE),
        SoloClass("DSP", "D Street Prepared", 847, TRUE),
        SoloClass("ESP", "E Street Prepared", 839, TRUE),
        SoloClass("FSP", "F Street Prepared", 826, TRUE)>>]

streetModifiedClasses ==
    [id |-> "street-modified", name |-> "Street Modified",
     description |-> "Street Modified Category - Extensive modifications allowed",
     classes |-> <<
        SoloClass("SSM", "Super Street Modified", 878, TRUE),
        SoloClass("SM", "Street Modified", 869, TRUE),
        SoloClass("SMF", "Street Modified FWD", 855, TRUE)>>]

preparedClasses ==
    [id |-> "prepared", name |-> "Prepared",
     description |-> "Prepared Category - Race-prepared vehicles",
     classes |-> <<
        SoloClass("AP", "A Prepared", 891, TRUE),
        SoloClass("BP", "B Prepared", 865, TRUE),
        SoloClass("CP", "C Prepared", 865, TRUE),
        SoloClass("DP", "D Prepared", 865, TRUE),
        SoloClass("EP", "E Prepared", 858, TRUE),
        SoloClass("FP", "F Prepared", 877, TRUE),
        SoloClass("XP", "X Prepared", 891, TRUE)>>]

modifiedClasses ==
    [id |-> "modified", name |-> "Modified",
     description |-> "Modified Category - Unlimited modifications",
     classes |-> <<
        SoloClass("AM", "A Modified", 1000, TRUE),
        SoloClass("BM", "B Modified", 978, TRUE),
        SoloClass("CM", "C Modified", 897, TRUE),
        SoloClass("DM", "D Modified", 923, TRUE),
        SoloClass("EM", "E Modified", 933, TRUE),
        SoloClass("FM", "F Modified", 925, TRUE)>>]

specClasses ==
    [id |-> "spec", name |-> "Spec",
     description |-> "Spec Category - Single-make classes",
     classes |-> <<
        SoloClass("SSC", "Solo Spec Coupe", 803, TRUE),
        SoloClass("FSAE", "Formula SAE", 980, TRUE),
        SoloClass("KM", "Kart Modified", 947, TRUE),
        SoloClass("CSX", "C Street eXperimental", 830, TRUE)>>]

supplementalClasses ==
    [id |-> "supplemental", name |-> "Supplemental",
     description |-> "Supplemental Category - Special classes",
     classes |-> <<
        SoloClass("XU", "Xtreme Unlimited", 867, TRUE),
        SoloClass("XA", "Xtreme A", 849, TRUE),
        SoloClass("XB", "Xtreme B", 856, TRUE),
        SoloClass("EVX", "Electric Vehicle eXperimental", 830, TRUE)>>]

camClasses ==
    [id |-> "cam", name |-> "CAM",
     description |-> "Classic American Muscle",
     classes |-> <<
        SoloClass("CAM-T", "CAM Traditional", 819, TRUE),
        SoloClass("CAM-C", "CAM Contemporary", 832, TRUE),
        SoloClass("CAM-S", "CAM Sport", 849, TRUE)>>]

\* mutant of clubSpecClasses: its class takes the code of Super Street
clubSpecClassesDuplicate ==
    [id |-> "club-spec", name |-> "Club Spec",
     description |-> "Club Spec Classes",
     classes |-> <<
        SoloClass("SS", "Club Spec Mustang", 830, TRUE)>>]

clubSpecClasses ==
    [id |-> "club-spec", name |-> "Club Spec",
     description |-> "Club Spec Classes",
     classes |-> <<
        SoloClass("CSM", "Club Spec Mustang", 830, TRUE)>>]

allGroups ==
    <<streetClasses, streetTouringClasses, streetPreparedClasses,
      streetModifiedClasses, preparedClasses, modifiedClasses, specClasses,
      supplementalClasses, camClasses, clubSpecClasses>>

prosolo2024 ==
    [year |-> 2024, indexType |-> "ProSolo", version |-> "2024.1.0",
     classGroups |-> Array(allGroups),
     classesByCode |-> DerivedClassesByCode(allGroups)]

Years == {0, 1999, 2000, 2024, 2100, 2101, 3000}
IndexTypeValues == {"Solo", "ProSolo", "Other", ""}

\* a sound year and index type over the groups of a shape
ManyGroups(s, derivation) ==
    PaxIndex(2024, "Solo", Array(ClassGroups(s)),
             ClassesByCodeFor(ClassGroups(s), derivation))

\* every year and index type over no group or one group
AnyHeader ==
    {PaxIndex(year, indexType, Array(groups), DerivedClassesByCode(groups)) :
        year \in Years, indexType \in IndexTypeValues,
        groups \in {<<>>} \cup
                   {<<SoloClassGroup(head, <<class>>)>> :
                       head \in {WellFormedHead} \cup MalformedHeads,
                       class \in ClassPool}}

\* one group of one class, over every class
OneClass ==
    {PaxIndex(2024, "Solo", Array(<<SoloClassGroup(WellFormedHead, <<class>>)>>),
              DerivedClassesByCode(<<SoloClassGroup(WellFormedHead, <<class>>)>>)) :
        class \in AnyClass}

\* a PAX index read from outside without its classGroups
WithoutGroups ==
    {PaxIndex(year, indexType, MissingArray, classesByCode) :
        year \in {2024, 3000}, indexType \in {"Solo", ""},
        classesByCode \in {EmptyClassesByCode,
                           WithExtraKey(EmptyClassesByCode)}}

ValidateInputs ==
    AnyHeader \cup OneClass \cup WithoutGroups \cup {prosolo2024}
LookupCodes == {"SS", "ss", "AS", "", "XS", "NONEXISTENT", "constructor"}

NoPaxIndex == PaxIndex(0, "", MissingArray, EmptyClassesByCode)
NoValidate == [args |-> [paxIndex |-> NoPaxIndex], out |-> NoCall]
NoLookup == [args |-> [classCode |-> "", paxIndex |-> NoPaxIndex],
             out |-> NoCall]
NoActive == [args |-> [paxIndex |-> NoPaxIndex], out |-> NoCall]

\* no call on a PAX index is made
NoDataCalls ==
    /\ val = NoValidate
    /\ look = NoLookup
    /\ act = NoActive

\* the stores are not created and no PAX index is shared
NoStoreCalls ==
    /\ calculator = NoStore
    /\ preferences = NoStore
    /\ paxData = NoStore
    /\ storage = NoStore
    /\ dataset = NoPaxIndex
    /\ callers = <<>>

\* every string of at most MaxLen characters over ShortAlphabet
ShortAlphabet == {"0", "1", ":", ".", " ", "-"}
ShortStrings == UNION {[1..n -> ShortAlphabet] : n \in 0..MaxLen}

\* one to four fields joined by colons and dots
Fields == {<<>>, <<"5">>, <<"0", "5">>, <<"2", "5">>, <<"0", "0", "5">>,
           <<"0", "0", "3", "4">>}
Separators == {<<":">>, <<".">>}
FieldStrings ==
    Fields
    \cup {f[1] \o p[1] \o f[2] : f \in [1..2 -> Fields], p \in [1..1 -> Separators]}
    \cup {f[1] \o p[1] \o f[2] \o p[2] \o f[3] :
            f \in [1..3 -> Fields], p \in [1..2 -> Separators]}
    \cup {f[1] \o p[1] \o f[2] \o p[2] \o f[3] \o p[3] \o f[4] :
            f \in [1..4 -> Fields], p \in [1..3 -> Separators]}

\* strings of the test suites
ExampleStrings ==
    {<<"6", "0", ":", "0", "0", ".", "0", "0", "0">>,
     <<"1", ":", "9", "9", ".", "0", "0", "0">>,
     <<"2", "5", ":", "0", "0", ":", "0", "0", ".", "0", "0", "0">>,
     <<"1", ":", "0", "5", ":", "1", "2", ".", "1", "2", "3">>,
     <<"6", "5", ".", "1", "2", "3">>,
     <<"1", ":", "0", "5", ".", "1", "2", "3">>,
     <<" ", "1", ":", "0", "5", ".", "1", "2", "3", " ">>,
     <<" ", " ", "6", "5", ".", "1", "2", "3", " ", " ">>,
     <<"6", " ", "5", ".", "1", "2", "3">>,
     <<"1", ":", " ", "0", "5", ".", "1", "2", "3">>,
     <<"1", "a", ".", "1", "2", "3">>,
     <<"1", ":", "0", "5", ".", "1", "2", "a">>,
     <<"1", ":", "0", "5", "@", "1", "2", "3">>,
     <<"-", "1", ":", "0", "0", ".", "0", "0", "0">>,
     <<"+", "5">>,
     <<"-", "5">>,
     <<"1", "h", "2", "m", "3", "s">>,
     <<"1", ":", "2", ":", "3", ":", "4">>,
     <<"1", ":", "0", "5", ".", "1", "2", "3", "e", "x", "t", "r", "a">>,
     <<"\t", "6", "5", ".", "1", "\t">>,
     <<"0", "0", "7", ".", "0", "0", "0">>,
     <<"0", "1", ":", "0", "1", ":", "0", "1", ".", "1", "2", "3">>,
     <<"1", ".", ".", "0", "5", ":", "1", "2", "3">>,
     <<"1", ":", "6", "0", ".", "0", "0", "0">>,
     <<"1", ":", "6", "0", ":", "0", "0", ".", "0", "0", "0">>,
     <<"1", ":", "0", "0", ":", "6", "0", ".", "0", "0", "0">>,
     <<"0", ".", "9", "9", "9">>, <<"9", ".", "9">>, <<"1", "2", ".", "5">>}

TimeStrings == ShortStrings \cup FieldStrings \cup ExampleStrings

\* arguments of formatTime, in ticks: every count up to MaxTicks either side
\* of zero, 0.9994 s, 0.9995 s, 1 s, 65.123 s, 123.4568 s and -5 s
FormatInputs == (-MaxTicks..MaxTicks) \cup {9994, 9995, 10000, 651230, 1234568, -50000}

\* a caller is about to invoke calculatePaxTime with any arguments
InitConvert ==
    /\ pc = "calculatePaxTime"
    /\ \E t \in InputTimes, ic \in Classes, oc \in Classes, now \in Timestamps :
          conv = [args |-> [inputTime |-> t, inputClass |-> ic,
                            outputClass |-> oc, now |-> now],
                  out |-> NoCall]
    /\ parse = NoParse
    /\ fmt = NoFormat
    /\ diff = NoDifference
    /\ NoDataCalls
    /\ back = NoConvert
    /\ NoStoreCalls

\* the call of calculatePaxTime runs to its return or throw
Convert ==
    /\ pc = "calculatePaxTime"
    /\ conv' = [conv EXCEPT !.out =
                   calculatePaxTime(conv.args.inputTime, conv.args.inputClass,
                                    conv.args.outputClass, conv.args.now)]
    /\ pc' = "returned"
    /\ UNCHANGED <<parse, fmt, diff, dataVars, back, storeVars, callVars>>

\* paxIndex lies in the typical range [0.7, 1.0]
TypicalPax(class) ==
    class.paxIndex >= MinTypicalPax /\ class.paxIndex <= MaxTypicalPax

\* the outputTime of a result between classes of typical paxIndex is
\* converted back: calculatePaxTime is called on it with the two classes
\* swapped and runs to its return or throw
ConvertBack ==
    /\ pc = "returned"
    /\ conv.out.status = "ok"
    /\ TypicalPax(conv.args.inputClass)
    /\ TypicalPax(conv.args.outputClass)
    /\ back' = [args |-> [inputTime |-> conv.out.value.outputTime,
                          inputClass |-> conv.args.outputClass,
                          outputClass |-> conv.args.inputClass,
                          now |-> conv.args.now],
                out |-> calculatePaxTime(conv.out.value.outputTime,
                                         conv.args.outputClass,
                                         conv.args.inputClass, conv.args.now)]
    /\ pc' = "converted back"
    /\ UNCHANGED <<conv, parse, fmt, diff, dataVars, storeVars, callVars>>

NextConvert == Convert \/ ConvertBack

SpecConvert == InitConvert /\ [][NextConvert]_vars

\* a caller is about to invoke parseTimeString or formatTime
InitTime ==
    /\ conv = NoConvert
    /\ NoDataCalls
    /\ back = NoConvert
    /\ NoStoreCalls
    /\ \/ /\ pc = "parseTimeString"
          /\ \E s \in TimeStrings : parse = [args |-> [timeString |-> s],
                                             out |-> NoCall]
          /\ fmt = NoFormat
          /\ diff = NoDifference
       \/ /\ pc = "formatTime"
          /\ parse = NoParse
          /\ \E x \in FormatInputs : fmt = [args |-> [seconds |-> x],
                                            out |-> NoCall]
          /\ diff = NoDifference
       \/ /\ pc = "formatTimeDifference"
          /\ parse = NoParse
          /\ fmt = NoFormat
          /\ \E x \in FormatInputs : diff = [args |-> [difference |-> x],
                                             out |-> NoCall]

\* the call of parseTimeString runs to its return or throw
ParseTime ==
    /\ pc = "parseTimeString"
    /\ parse' = [parse EXCEPT !.out = parseTimeString(parse.args.timeString)]
    /\ pc' = "returned"
    /\ UNCHANGED <<conv, fmt, diff, dataVars, back, storeVars, callVars>>

\* the call of formatTime runs to its return or throw
FormatTime ==
    /\ pc = "formatTime"
    /\ fmt' = [fmt EXCEPT !.out = formatTime(fmt.args.seconds)]
    /\ pc' = "returned"
    /\ UNCHANGED <<conv, parse, diff, dataVars, back, storeVars, callVars>>

\* the caller passes the parsed time on to formatTime
FormatParsed ==
    /\ pc = "returned"
    /\ parse.out.status = "ok"
    /\ fmt' = [args |-> [seconds |-> parse.out.value],
               out |-> formatTime(parse.out.value)]
    /\ pc' = "formatted"
    /\ UNCHANGED <<conv, parse, diff, dataVars, back, storeVars, callVars>>

\* the call of formatTimeDifference runs to its return
FormatDifference ==
    /\ pc = "formatTimeDifference"
    /\ diff' = [diff EXCEPT !.out = formatTimeDifference(diff.args.difference)]
    /\ pc' = "returned"
    /\ UNCHANGED <<conv, parse, fmt, dataVars, back, storeVars, callVars>>

NextTime == ParseTime \/ FormatTime \/ FormatParsed \/ FormatDifference

SpecTime == InitTime /\ [][NextTime]_vars

\* Specification of findClassByCode, getActiveClasses and validatePaxIndex:
\* one of them is called on a PAX index and runs to its end.
InitData ==
    /\ conv = NoConvert
    /\ back = NoConvert
    /\ NoStoreCalls
    /\ parse = NoParse
    /\ fmt = NoFormat
    /\ diff = NoDifference
    /\ \/ /\ pc = "validatePaxIndex"
          /\ \/ \E p \in ValidateInputs :
                   val = [args |-> [paxIndex |-> p], out |-> NoCall]
             \/ \E g \in 0..MaxGroups, n \in 0..MaxClasses :
                   \E s \in Shapes(g, n), derivation \in Derivations :
                       val = [args |-> [paxIndex |-> ManyGroups(s, derivation)],
                              out |-> NoCall]
          /\ look = NoLookup
          /\ act = NoActive
       \/ /\ pc = "findClassByCode"
          /\ val = NoValidate
          /\ \/ \E g \in 0..1, n \in 0..MaxClasses :
                \E s \in Shapes(g, n), derivation \in Derivations,
                   c \in LookupCodes :
                    look = [args |-> [classCode |-> c,
                                      paxIndex |-> ManyGroups(s, derivation)],
                            out |-> NoCall]
             \/ \E c \in LookupCodes \cup DOMAIN prosolo2024.classesByCode :
                   look = [args |-> [classCode |-> c,
                                     paxIndex |-> prosolo2024],
                           out |-> NoCall]
          /\ act = NoActive
       \/ /\ pc = "getActiveClasses"
          /\ val = NoValidate
          /\ look = NoLookup
          /\ \/ \E g \in 0..MaxGroups, n \in 0..MaxClasses :
                   \E s \in Shapes(g, n) :
                       act = [args |-> [paxIndex |-> ManyGroups(s, "derived")],
                              out |-> NoCall]
             \/ act = [args |-> [paxIndex |-> prosolo2024], out |-> NoCall]

\* the call of validatePaxIndex runs to its return or its throw
Validate ==
    /\ pc = "validatePaxIndex"
    /\ val' = [val EXCEPT !.out = validatePaxIndex(val.args.paxIndex)]
    /\ pc' = "returned"
    /\ UNCHANGED <<conv, parse, fmt, diff, look, act, back, storeVars, callVars>>

\* the call of findClassByCode runs to its return
FindClass ==
    /\ pc = "findClassByCode"
    /\ look' = [look EXCEPT !.out = findClassByCode(look.args.classCode,
                                                     look.args.paxIndex)]
    /\ pc' = "returned"
    /\ UNCHANGED <<conv, parse, fmt, diff, val, act, back, storeVars, callVars>>

\* the call of getActiveClasses runs to its return
ActiveClasses ==
    /\ pc = "getActiveClasses"
    /\ act' = [act EXCEPT !.out = getActiveClasses(act.args.paxIndex)]
    /\ pc' = "returned"
    /\ UNCHANGED <<conv, parse, fmt, diff, val, look, back, storeVars, callVars>>

NextData == Validate \/ FindClass \/ ActiveClasses

SpecData == InitData /\ [][NextData]_vars

----------------------------------------------------------------------------
(* The stores (lib/stores): localStorage, calculator                       *)
(*                                                                         *)
(* A writable store is a state variable holding its value; its subscribers *)
(* are called before update returns, so every value a store takes is a     *)
(* state.  A value that may be undefined is a record saying whether it is  *)
(* defined.  An item of localStorage is held as the value JSON.parse gives *)
(* for the text JSON.stringify wrote: the values stored are finite         *)
(* numbers, strings, booleans and arrays and plain objects of these, which *)
(* JSON gives back as they were (a property that is undefined is left out  *)
(* of the text and read back undefined).                                   *)

Some(v) == [defined |-> TRUE, value |-> v]
NoResult == [inputTime |-> 0, inputClass |-> NoClass, outputTime |-> 0,
             outputClass |-> NoClass, timeDifference |-> 0,
             isFaster |-> FALSE, calculatedAt |-> ""]
UndefinedResult == [defined |-> FALSE, value |-> NoResult]
UndefinedString == [defined |-> FALSE, value |-> ""]

\* the calls of the core that no store makes
coreVars == <<parse, fmt, diff, dataVars, back, callVars>>

\* localStorage.getItem(key) ? JSON.parse(...) : defaultValue, and the
\* default too where there is no localStorage
loadFromStorage(key, defaultValue) ==
    IF ~storage.available THEN defaultValue
    ELSE IF storage.items[key].defined THEN storage.items[key]
    ELSE defaultValue

\* localStorage after saveToStorage(key, value)
saveToStorage(items, key, value) ==
    IF ~storage.available THEN items
    ELSE [items EXCEPT ![key] = Some(value)]

PREFERENCES == "pax-calculator-preferences"
PAX_DATA == "pax-calculator-data"
LAST_CALCULATION == "pax-calculator-last-calculation"
STORAGE_KEYS == {PREFERENCES, PAX_DATA, LAST_CALCULATION}

UndefinedIndex == [defined |-> FALSE, value |-> NoPaxIndex]

defaultPreferences ==
    [indexType |-> "Solo",
     viewMode |-> "Direct",
     inputClass |-> UndefinedString,
     outputClass |-> UndefinedString,
     lastTime |-> "",
     autoUpdate |-> TRUE,
     pinnedVersion |-> UndefinedString]

defaultMetadata ==
    [indices |-> <<>>,
     currentIndex |-> UndefinedIndex,
     lastUpdateCheck |-> "",
     hasUpdates |-> FALSE]

\* the value of the calculator store at its creation
createCalculatorStore ==
    [currentTime |-> <<>>,
     lastResult |-> loadFromStorage(LAST_CALCULATION, UndefinedResult),
     isCalculating |-> FALSE,
     error |-> UndefinedString]

\* calculator.setTime(time)
setTime(time) ==
    /\ pc \notin {"calculating"}
    /\ calculator' = [calculator EXCEPT !.currentTime = time,
                                        !.error = UndefinedString]
    /\ conv' = NoConvert
    /\ pc' = "setTime"
    /\ UNCHANGED <<storage, preferences, paxData, coreVars>>

\* calculator.calculate(inputTime, inputClass, outputClass), up to the call
\* of calculatePaxTime: the store says that it is calculating
calculateBegin(inputTime, inputClass, outputClass, now) ==
    /\ pc \notin {"calculating"}
    /\ calculator' = [calculator EXCEPT !.isCalculating = TRUE,
                                        !.error = UndefinedString]
    /\ conv' = [args |-> [inputTime |-> inputTime, inputClass |-> inputClass,
                          outputClass |-> outputClass, now |-> now],
                out |-> NoCall]
    /\ pc' = "calculating"
    /\ UNCHANGED <<storage, preferences, paxData, coreVars>>

\* mutant of CalculateOutcome: a failure forgets the last result
CalculateOutcomeForgetful(state, items, out) ==
    IF out.status = "ok"
    THEN [calculator |-> [state EXCEPT !.lastResult = Some(out.value),
                                       !.isCalculating = FALSE],
          items |-> saveToStorage(items, LAST_CALCULATION, out.value)]
    ELSE [calculator |-> [state EXCEPT !.isCalculating = FALSE,
                                       !.lastResult = UndefinedResult,
                                       !.error = Some(out.error)],
          items |-> items]

\* the store and localStorage after the try statement of calculate, out
\* being what calculatePaxTime returned or threw
CalculateOutcome(state, items, out) ==
    IF out.status = "ok"
    THEN [calculator |-> [state EXCEPT !.lastResult = Some(out.value),
                                       !.isCalculating = FALSE],
          items |-> saveToStorage(items, LAST_CALCULATION, out.value)]
    ELSE [calculator |-> [state EXCEPT !.isCalculating = FALSE,
                                       !.error = Some(out.error)],
          items |-> items]

\* calculator.calculate from the call of calculatePaxTime to its own return
\* of the result or throw of the error caught (conv.out says which)
CalculateEnd ==
    /\ pc = "calculating"
    /\ LET out == calculatePaxTime(conv.args.inputTime, conv.args.inputClass,
                                   conv.args.outputClass, conv.args.now)
           after == CalculateOutcome(calculator, storage.items, out)
       IN  /\ conv' = [conv EXCEPT !.out = out]
           /\ calculator' = after.calculator
           /\ storage' = [storage EXCEPT !.items = after.items]
    /\ pc' = "calculate"
    /\ UNCHANGED <<preferences, paxData, coreVars>>

\* mutant of ClearedState: the error stays
ClearedStateKeepsError(state) ==
    [state EXCEPT !.currentTime = <<>>,
                  !.lastResult = UndefinedResult]

ClearedState(state) ==
    [state EXCEPT !.currentTime = <<>>,
                  !.lastResult = UndefinedResult,
                  !.error = UndefinedString]

\* calculator.clear()
Clear ==
    /\ pc \notin {"calculating"}
    /\ calculator' = ClearedState(calculator)
    /\ conv' = NoConvert
    /\ pc' = "clear"
    /\ UNCHANGED <<storage, preferences, paxData, coreVars>>

\* calculator.clearError()
ClearError ==
    /\ pc \notin {"calculating"}
    /\ calculator' = [calculator EXCEPT !.error = UndefinedString]
    /\ conv' = NoConvert
    /\ pc' = "clearError"
    /\ UNCHANGED <<storage, preferences, paxData, coreVars>>

\* the page is loaded again: the module is evaluated anew and the calculator
\* store created from what localStorage holds
CreateCalculatorStore ==
    /\ pc \notin {"calculating"}
    /\ calculator' = createCalculatorStore
    /\ conv' = NoConvert
    /\ pc' = "createCalculatorStore"
    /\ UNCHANGED <<storage, preferences, paxData, coreVars>>

\* arguments of setTime: empty, blank, a time
NoTime == <<>>
BlankTime == <<" ">>
SomeTime == <<"6", "5", ".", "1">>
TimeEntries == {NoTime, BlankTime, SomeTime}

\* arguments of calculate: a time that is refused and one that is not, a
\* class of positive paxIndex and one of paxIndex 0
CalculateTimes == {0, 651000}
CalculateClasses == {SoloClass("SS", "Super Street", 844, TRUE),
                     SoloClass("ZZ", "Zero", 0, TRUE)}

\* localStorage as the page finds it: none, empty, or with the last
\* calculation an earlier visit left
NoItems ==
    [key \in STORAGE_KEYS |->
        CASE key = PREFERENCES -> [defined |-> FALSE, value |-> defaultPreferences]
          [] key = PAX_DATA -> [defined |-> FALSE, value |-> defaultMetadata]
          [] key = LAST_CALCULATION -> UndefinedResult]
EarlierResult ==
    calculatePaxTime(12340, SoloClass("SS", "Super Street", 844, TRUE),
                     SoloClass("AS", "A Street", 830, TRUE), "t0").value
Storages ==
    {[available |-> FALSE, items |-> NoItems],
     [available |-> TRUE, items |-> NoItems],
     [available |-> TRUE,
      items |-> [NoItems EXCEPT ![LAST_CALCULATION] = Some(EarlierResult)]]}

\* the module has just been evaluated: the calculator store is created
InitCalculator ==
    /\ pc = "createCalculatorStore"
    /\ storage \in Storages
    /\ calculator = createCalculatorStore
    /\ preferences = NoStore
    /\ paxData = NoStore
    /\ conv = NoConvert
    /\ back = NoConvert
    /\ parse = NoParse
    /\ fmt = NoFormat
    /\ diff = NoDifference
    /\ NoDataCalls
    /\ dataset = NoPaxIndex
    /\ callers = <<>>

SetTime == \E time \in TimeEntries : setTime(time)

CalculateBegin ==
    \E t \in CalculateTimes, ic \in CalculateClasses,
       oc \in CalculateClasses, now \in Timestamps :
        calculateBegin(t, ic, oc, now)

NextCalculator ==
    \/ SetTime
    \/ CalculateBegin
    \/ CalculateEnd
    \/ Clear
    \/ ClearError
    \/ CreateCalculatorStore

SpecCalculator == InitCalculator /\ [][NextCalculator]_vars

----------------------------------------------------------------------------
(* The stores (lib/stores): paxData, preferences and the stores derived    *)
(* from them                                                               *)

\* the value of the paxData and preferences stores at their creation
createPaxDataStore == loadFromStorage(PAX_DATA, Some(defaultMetadata)).value
createPreferencesStore ==
    loadFromStorage(PREFERENCES, Some(defaultPreferences)).value

\* the operations of the stores other than the calculator change neither it
\* nor the record of its last call
calculatorVars == <<calculator, conv>>

\* paxData.setIndices(indices)
setIndices(indices) ==
    /\ pc \notin {"calculating"}
    /\ paxData' = [paxData EXCEPT !.indices = indices]
    /\ storage' = [storage EXCEPT
                      !.items = saveToStorage(@, PAX_DATA, paxData')]
    /\ pc' = "setIndices"
    /\ UNCHANGED <<preferences, calculatorVars, coreVars>>

\* paxData.setCurrentIndex(index)
setCurrentIndex(index) ==
    /\ pc \notin {"calculating"}
    /\ paxData' = [paxData EXCEPT !.currentIndex = index]
    /\ storage' = [storage EXCEPT
                      !.items = saveToStorage(@, PAX_DATA, paxData')]
    /\ pc' = "setCurrentIndex"
    /\ UNCHANGED <<preferences, calculatorVars, coreVars>>

\* paxData.setHasUpdates(hasUpdates), now being new Date().toISOString()
setHasUpdates(hasUpdates, now) ==
    /\ pc \notin {"calculating"}
    /\ paxData' = [paxData EXCEPT !.hasUpdates = hasUpdates,
                                  !.lastUpdateCheck = now]
    /\ storage' = [storage EXCEPT
                      !.items = saveToStorage(@, PAX_DATA, paxData')]
    /\ pc' = "setHasUpdates"
    /\ UNCHANGED <<preferences, calculatorVars, coreVars>>

\* array.filter(test)
Filter(array, Test(_)) == SelectSeq(array, Test)

\* mutant of CompareYears: the earlier year comes first
CompareYearsAscending(a, b) == a.year - b.year

\* (a, b) => b.year - a.year
CompareYears(a, b) == b.year - a.year

\* array.sort(CompareYears): a stable sort, each element put before the
\* first of the elements already sorted that it compares less than
RECURSIVE Insert(_, _)
Insert(sorted, index) ==
    IF sorted = <<>> THEN <<index>>
    ELSE IF CompareYears(index, Head(sorted)) < 0 THEN <<index>> \o sorted
    ELSE <<Head(sorted)>> \o Insert(Tail(sorted), index)

RECURSIVE Sort(_)
Sort(array) ==
    IF array = <<>> THEN <<>>
    ELSE Insert(Sort(SubSeq(array, 1, Len(array) - 1)), array[Len(array)])

\* array[0]
First(array) ==
    IF array = <<>> THEN UndefinedIndex ELSE Some(array[1])

\* array.find(test)
Find(array, Test(_)) == First(SelectSeq(array, Test))

\* paxData.getLatestIndex(indexType)
getLatestIndex(indexType) ==
    First(Sort(Filter(paxData.indices,
                      LAMBDA index : index.indexType = indexType)))

\* a string | undefined used as a condition
TruthyString(string) == string.defined /\ string.value # ""

\* the derived store currentPaxIndex
currentPaxIndex ==
    IF preferences.autoUpdate THEN getLatestIndex(preferences.indexType)
    ELSE IF TruthyString(preferences.pinnedVersion)
    THEN Find(paxData.indices,
              LAMBDA index : /\ index.indexType = preferences.indexType
                             /\ index.version = preferences.pinnedVersion.value)
    ELSE IF /\ paxData.currentIndex.defined
            /\ paxData.currentIndex.value.indexType = preferences.indexType
         THEN paxData.currentIndex
         ELSE UndefinedIndex

\* the derived stores selectedInputClass and selectedOutputClass, code being
\* the preference they read
SelectedClass(code) ==
    IF ~currentPaxIndex.defined \/ ~TruthyString(code) THEN Undefined
    ELSE findClassByCode(code.value, currentPaxIndex.value).value

selectedInputClass == SelectedClass(preferences.inputClass)
selectedOutputClass == SelectedClass(preferences.outputClass)

\* a value read from classesByCode used as a condition: an object and a
\* function are truthy, undefined is not
Truthy(value) == value.type # "undefined"

\* the derived store canCalculate
canCalculate ==
    /\ Truthy(selectedInputClass)
    /\ Truthy(selectedOutputClass)
    /\ Trim(calculator.currentTime) # <<>>
    /\ ~calculator.isCalculating

\* preferences.updatePreference(key, value)
updatePreference(key, value) ==
    /\ pc \notin {"calculating"}
    /\ preferences' = [preferences EXCEPT ![key] = value]
    /\ storage' = [storage EXCEPT
                      !.items = saveToStorage(@, PREFERENCES, preferences')]
    /\ pc' = "updatePreference"
    /\ UNCHANGED <<paxData, calculatorVars, coreVars>>

\* preferences.updatePreferences(updates)
updatePreferences(updates) ==
    /\ pc \notin {"calculating"}
    /\ preferences' = [key \in DOMAIN preferences |->
                          IF key \in DOMAIN updates THEN updates[key]
                          ELSE preferences[key]]
    /\ storage' = [storage EXCEPT
                      !.items = saveToStorage(@, PREFERENCES, preferences')]
    /\ pc' = "updatePreferences"
    /\ UNCHANGED <<paxData, calculatorVars, coreVars>>

\* preferences.reset()
Reset ==
    /\ pc \notin {"calculating"}
    /\ preferences' = defaultPreferences
    /\ storage' = [storage EXCEPT
                      !.items = saveToStorage(@, PREFERENCES,
                                              defaultPreferences)]
    /\ pc' = "reset"
    /\ UNCHANGED <<paxData, calculatorVars, coreVars>>

\* PAX indices the stores are given: two years of Solo, the later with one
\* class more, and one of ProSolo
Index(year, indexType, version, classes) ==
    [year |-> year, indexType |-> indexType, version |-> version,
     classGroups |-> Array(<<SoloClassGroup(WellFormedHead, classes)>>),
     classesByCode |->
        DerivedClassesByCode(<<SoloClassGroup(WellFormedHead, classes)>>)]
solo2023 ==
    Index(2023, "Solo", "2023.1.0",
          <<SoloClass("SS", "Super Street", 850, TRUE)>>)
solo2024 ==
    Index(2024, "Solo", "2024.1.0",
          <<SoloClass("SS", "Super Street", 844, TRUE),
            SoloClass("AS", "A Street", 830, TRUE)>>)
prosolo2023 ==
    Index(2023, "ProSolo", "2023.1.0",
          <<SoloClass("SS", "Super Street", 826, TRUE)>>)
IndexLists == {<<>>, <<solo2023, solo2024, prosolo2023>>, <<solo2024, solo2023>>}
CurrentIndices == {UndefinedIndex, Some(solo2023)}

\* class codes preferred: none, a code of every index, a code of solo2024
\* only, and a code of no index that names a member of Object.prototype
InputCodes == {UndefinedString, Some("SS"), Some("AS"), Some("constructor")}
OutputCodes == {UndefinedString, Some("SS")}
PinnedVersions == {UndefinedString, Some(""), Some("2023.1.0")}

\* the module has just been evaluated where localStorage is empty: the three
\* stores are created with their default values
InitSelection ==
    /\ pc = "createCalculatorStore"
    /\ storage = [available |-> TRUE, items |-> NoItems]
    /\ paxData = createPaxDataStore
    /\ preferences = createPreferencesStore
    /\ calculator = createCalculatorStore
    /\ conv = NoConvert
    /\ back = NoConvert
    /\ parse = NoParse
    /\ fmt = NoFormat
    /\ diff = NoDifference
    /\ NoDataCalls
    /\ dataset = NoPaxIndex
    /\ callers = <<>>

SetIndices == \E indices \in IndexLists : setIndices(indices)
SetCurrentIndex == \E index \in CurrentIndices : setCurrentIndex(index)
SetHasUpdates == setHasUpdates(TRUE, "t1")
UpdatePreference ==
    \/ \E value \in IndexTypes : updatePreference("indexType", value)
    \/ \E value \in InputCodes : updatePreference("inputClass", value)
    \/ \E value \in OutputCodes : updatePreference("outputClass", value)
    \/ \E value \in BOOLEAN : updatePreference("autoUpdate", value)
    \/ \E value \in PinnedVersions : updatePreference("pinnedVersion", value)
UpdatePreferences ==
    \/ updatePreferences([inputClass |-> Some("SS"),
                          outputClass |-> Some("SS")])
    \/ updatePreferences([autoUpdate |-> FALSE,
                          pinnedVersion |-> Some("2024.1.0")])
EnterTime == \E time \in {BlankTime, SomeTime} : setTime(time)
Calculate ==
    calculateBegin(651000, SoloClass("SS", "Super Street", 844, TRUE),
                   SoloClass("AS", "A Street", 830, TRUE), "t1")

NextSelection ==
    \/ SetIndices
    \/ SetCurrentIndex
    \/ SetHasUpdates
    \/ UpdatePreference
    \/ UpdatePreferences
    \/ Reset
    \/ EnterTime
    \/ Calculate
    \/ CalculateEnd

SpecSelection == InitSelection /\ [][NextSelection]_vars

----------------------------------------------------------------------------
(* Callers of validatePaxIndex, findClassByCode and getActiveClasses on    *)
(* one PAX index.  validatePaxIndex is taken a step at a time, the checks  *)
(* before the loop, then a group at each step, then the last check, each   *)
(* caller with the local variables of its own call; the steps of the       *)
(* callers interleave in any order.                                        *)

NumCallers == 2
Operations == {"validatePaxIndex", "findClassByCode", "getActiveClasses"}

\* the local variables of validatePaxIndex where there are none yet
NoLocals == [errors |-> <<>>, warnings |-> <<>>, classCount |-> 0,
             seenCodes |-> {}]

\* mutant of FreshLocals: the codes seen are kept between the calls
SharedSeenCodes(paxIndex) ==
    [errors |-> HeaderErrors(paxIndex),
     warnings |-> <<>>,
     classCount |-> 0,
     seenCodes |-> UNION {callers[i].v.seenCodes : i \in DOMAIN callers}]

\* the local variables of validatePaxIndex as the loop over the groups is
\* reached: errors, warnings, classCount and seenCodes are declared in the
\* call
FreshLocals(paxIndex) ==
    [errors |-> HeaderErrors(paxIndex),
     warnings |-> <<>>,
     classCount |-> 0,
     seenCodes |-> {}]

\* the call of caller i is left alone: nothing else changes
OnlyCaller(i, caller) ==
    /\ callers' = [callers EXCEPT ![i] = caller]
    /\ UNCHANGED <<pc, conv, parse, fmt, diff, dataVars, back, storeVars,
                   dataset>>

\* validatePaxIndex(dataset) up to the loop over the groups, which throws
\* where there is nothing to iterate
CallValidate(i) ==
    /\ callers[i].op = "validatePaxIndex"
    /\ callers[i].status = "called"
    /\ OnlyCaller(i,
          IF ~dataset.classGroups.defined
          THEN [callers[i] EXCEPT !.status = "returned",
                                  !.out = Throw(ErrNotIterable)]
          ELSE [callers[i] EXCEPT !.status = "running",
                                  !.v = FreshLocals(dataset),
                                  !.g = 1])

\* one turn of the loop over the groups
ValidateNextGroup(i) ==
    /\ callers[i].op = "validatePaxIndex"
    /\ callers[i].status = "running"
    /\ callers[i].g <= Len(dataset.classGroups.items)
    /\ OnlyCaller(i,
          [callers[i] EXCEPT
              !.v = ValidateGroup(@, dataset.classGroups.items[callers[i].g]),
              !.g = @ + 1])

\* the check after the loop and the return of the result
ReturnValidate(i) ==
    /\ callers[i].op = "validatePaxIndex"
    /\ callers[i].status = "running"
    /\ callers[i].g > Len(dataset.classGroups.items)
    /\ OnlyCaller(i,
          [callers[i] EXCEPT
              !.status = "returned",
              !.out = Return(ValidationResult(dataset, callers[i].v))])

\* findClassByCode(classCode, dataset)
CallFindClass(i) ==
    /\ callers[i].op = "findClassByCode"
    /\ callers[i].status = "called"
    /\ OnlyCaller(i,
          [callers[i] EXCEPT
              !.status = "returned",
              !.out = findClassByCode(callers[i].classCode, dataset)])

\* getActiveClasses(dataset)
CallActiveClasses(i) ==
    /\ callers[i].op = "getActiveClasses"
    /\ callers[i].status = "called"
    /\ OnlyCaller(i,
          [callers[i] EXCEPT !.status = "returned",
                             !.out = getActiveClasses(dataset)])

\* the PAX indices the callers share: the code SS in two groups, no
\* classGroups at all, and ProSolo 2024 as shipped
RepeatedAcrossGroups ==
    LET groups ==
          <<SoloClassGroup(WellFormedHead,
                           <<SoloClass("SS", "Super Street", 844, TRUE),
                             SoloClass("AS", "A Street", 1100, FALSE)>>),
            SoloClassGroup(WellFormedHead,
                           <<SoloClass("SS", "Super Street", 844, TRUE)>>)>>
    IN  PaxIndex(2024, "Solo", Array(groups), DerivedClassesByCode(groups))
SharedDatasets ==
    {RepeatedAcrossGroups,
     PaxIndex(2024, "Solo", MissingArray, EmptyClassesByCode),
     prosolo2024}

Called(op, classCode) ==
    [op |-> op, classCode |-> classCode, status |-> "called",
     v |-> NoLocals, g |-> 0, out |-> NoCall]

\* every caller is about to call one of the three functions on the dataset
InitCalls ==
    /\ pc = "callers"
    /\ dataset \in SharedDatasets
    /\ callers \in [1..NumCallers ->
                      {Called("validatePaxIndex", ""),
                       Called("getActiveClasses", ""),
                       Called("findClassByCode", "SS"),
                       Called("findClassByCode", "ss")}]
    /\ conv = NoConvert
    /\ back = NoConvert
    /\ parse = NoParse
    /\ fmt = NoFormat
    /\ diff = NoDifference
    /\ NoDataCalls
    /\ calculator = NoStore
    /\ preferences = NoStore
    /\ paxData = NoStore
    /\ storage = NoStore

StartValidate == \E i \in DOMAIN callers : CallValidate(i)
ValidateStep == \E i \in DOMAIN callers : ValidateNextGroup(i)
FinishValidate == \E i \in DOMAIN callers : ReturnValidate(i)
FindClassCall == \E i \in DOMAIN callers : CallFindClass(i)
ActiveClassesCall == \E i \in DOMAIN callers : CallActiveClasses(i)

NextCalls ==
    \/ StartValidate
    \/ ValidateStep
    \/ FinishValidate
    \/ FindClassCall
    \/ ActiveClassesCall

SpecCalls == InitCalls /\ [][NextCalls]_vars

----------------------------------------------------------------------------
(* Properties of calculatePaxTime, checked under SpecConvert *)

ConvertReturned == pc = "returned" /\ conv.out.status = "ok"
ConvertThrew == pc = "returned" /\ conv.out.status = "error"

\* the arguments satisfy both preconditions of calculatePaxTime
ValidConvertArgs ==
    /\ conv.args.inputTime > 0
    /\ conv.args.inputClass.paxIndex > 0
    /\ conv.args.outputClass.paxIndex > 0

\* inputTime is a whole number of milliseconds
WholeMs(t) == t % TicksPerMs = 0

\* C1: for inputTime > 0 and both paxIndex > 0 the call returns a result whose
\* outputTime is a whole number of milliseconds at most half a millisecond
\* away from inputTime * inputClass.paxIndex / outputClass.paxIndex, and whose
\* inputTime, inputClass and outputClass are the arguments.
C1_OutputTimeIsRoundedFormula ==
    (pc = "returned" /\ ValidConvertArgs) =>
        /\ conv.out.status = "ok"
        /\ LET r == conv.out.value
               t == conv.args.inputTime
               a == conv.args.inputClass.paxIndex
               b == conv.args.outputClass.paxIndex
           IN  /\ WholeMs(r.outputTime)
               /\ 2 * Abs(r.outputTime * b - t * a) <= b * TicksPerMs
               /\ r.inputTime = t
               /\ r.inputClass = conv.args.inputClass
               /\ r.outputClass = conv.args.outputClass

\* 60 s from paxIndex 0.844 to 0.83 has returned 61.012 s
C1_Witness ==
    /\ ConvertReturned
    /\ conv.args.inputTime = 600000
    /\ conv.args.inputClass.paxIndex = 844
    /\ conv.args.outputClass.paxIndex = 830
    /\ conv.out.value.outputTime = 610120

\* C2: in every returned result isFaster is true exactly when the rounded
\* timeDifference field is strictly negative.
C2_IsFasterIffRoundedDifferenceNegative ==
    ConvertReturned =>
        (conv.out.value.isFaster <=> conv.out.value.timeDifference < 0)

\* C3: in every returned result timeDifference equals the rounded outputTime
\* minus inputTime.
C3_DifferenceFromRoundedOutput ==
    ConvertReturned =>
        conv.out.value.timeDifference
            = conv.out.value.outputTime - conv.out.value.inputTime

\* C4 as stated: for every positive inputTime and two classes of equal positive
\* paxIndex, outputTime = inputTime, timeDifference = 0 and isFaster = FALSE.
C4_SameClassIdentityAnyTime ==
    (pc = "returned" /\ ValidConvertArgs
       /\ conv.args.inputClass.paxIndex = conv.args.outputClass.paxIndex) =>
        /\ conv.out.status = "ok"
        /\ conv.out.value.outputTime = conv.args.inputTime
        /\ conv.out.value.timeDifference = 0
        /\ conv.out.value.isFaster = FALSE

\* C4 amended: for every positive inputTime and two classes of equal positive
\* paxIndex, timeDifference = 0 and isFaster = FALSE; outputTime is a whole
\* number of milliseconds within half a millisecond of inputTime, hence equal
\* to inputTime when inputTime is a whole number of milliseconds.
C4_SameClassIdentityWholeMs ==
    (pc = "returned" /\ ValidConvertArgs
       /\ conv.args.inputClass.paxIndex = conv.args.outputClass.paxIndex) =>
        /\ conv.out.status = "ok"
        /\ conv.out.value.timeDifference = 0
        /\ conv.out.value.isFaster = FALSE
        /\ WholeMs(conv.out.value.outputTime)
        /\ 2 * Abs(conv.out.value.outputTime - conv.args.inputTime)
              <= TicksPerMs
        /\ WholeMs(conv.args.inputTime) =>
              conv.out.value.outputTime = conv.args.inputTime

\* 0.002 s converted between two different classes of paxIndex 0.844
C4_Witness ==
    /\ ConvertReturned
    /\ conv.args.inputTime = 20
    /\ conv.args.inputClass.paxIndex = 844
    /\ conv.args.outputClass.paxIndex = 844
    /\ conv.args.inputClass.code # conv.args.outputClass.code
    /\ conv.out.value.outputTime = 20

\* C5: inputTime <= 0 throws the input-time error whatever the classes are;
\* inputTime > 0 with a paxIndex <= 0 throws the PAX-indices error; a result
\* is returned in neither case.
C5_PreconditionOrder ==
    pc = "returned" =>
        /\ conv.args.inputTime <= 0 =>
              /\ conv.out.status = "error"
              /\ conv.out.error = ErrInputTime
        /\ (/\ conv.args.inputTime > 0
            /\ \/ conv.args.inputClass.paxIndex <= 0
               \/ conv.args.outputClass.paxIndex <= 0) =>
              /\ conv.out.status = "error"
              /\ conv.out.error = ErrPaxIndices
        /\ ErrInputTime # ErrPaxIndices

\* a call with inputTime <= 0 and a paxIndex <= 0 has thrown
C5_Witness ==
    /\ ConvertThrew
    /\ conv.args.inputTime <= 0
    /\ conv.args.inputClass.paxIndex <= 0
    /\ conv.out.error = ErrInputTime

C30_RoundTripWithinOneMs ==
    (/\ pc = "converted back"
     /\ conv.args.inputTime > 0
     /\ WholeMs(conv.args.inputTime)
     /\ conv.args.inputClass.paxIndex >= 700
     /\ conv.args.inputClass.paxIndex <= 1000
     /\ conv.args.outputClass.paxIndex >= 700
     /\ conv.args.outputClass.paxIndex <= 1000
     /\ conv.out.value.outputTime > 0)
    => /\ back.out.status = "ok"
       /\ Abs(back.out.value.outputTime - conv.args.inputTime) <= 10

\* 0.002 went from 0.75 to 1.0 as 0.002 (0.0015 rounded up) and came back as
\* 0.003: one millisecond off
C30_Witness ==
    /\ pc = "converted back"
    /\ conv.args.inputTime = 20
    /\ conv.args.inputClass.paxIndex = 750
    /\ conv.args.outputClass.paxIndex = 1000
    /\ conv.out.value.outputTime = 20
    /\ back.out.status = "ok"
    /\ back.out.value.outputTime = 30

----------------------------------------------------------------------------
(* Properties of parseTimeString and formatTime, checked under SpecTime *)

ParseCalled == parse.out.status # "none"
FormatCalled == fmt.out.status # "none"

RECURSIVE Split(_, _)
\* the pieces of s between the occurrences of the character c
Split(s, c) ==
    IF \A i \in 1..Len(s) : s[i] # c THEN <<s>>
    ELSE LET i == CHOOSE i \in 1..Len(s) :
                     s[i] = c /\ \A j \in 1..(i - 1) : s[j] # c
         IN  <<SubSeq(s, 1, i - 1)>> \o Split(SubSeq(s, i + 1, Len(s)), c)

RECURSIVE StripLeft(_)
StripLeft(s) ==
    IF s # <<>> /\ Head(s) \in WhiteSpace THEN StripLeft(Tail(s)) ELSE s

RECURSIVE StripRight(_)
StripRight(s) ==
    IF s # <<>> /\ s[Len(s)] \in WhiteSpace
    THEN StripRight(SubSeq(s, 1, Len(s) - 1)) ELSE s

\* s without its outer white space
Core(s) == StripRight(StripLeft(s))

NonEmptyDigits(s) == s # <<>> /\ IsDigits(s)

\* the fields of s: the pieces between colons, the last one cut at its dots
ColonFields(s) == Split(s, ":")
SecondsFields(s) == Split(ColonFields(s)[Len(ColonFields(s))], ".")

\* s is written in one of the four grammars: at most three colon-separated
\* fields, each of digits only; after a colon one or two digits; at most one
\* dot, in the last field, followed by one to three digits; a fraction is
\* required as soon as there is a colon
InGrammar(s) ==
    LET fields == ColonFields(s)
        n == Len(fields)
        last == SecondsFields(s)
    IN  /\ n <= 3
        /\ Len(last) <= 2
        /\ \A k \in 1..(n - 1) : NonEmptyDigits(fields[k])
        /\ \A k \in 2..(n - 1) : Len(fields[k]) <= 2
        /\ NonEmptyDigits(last[1])
        /\ n > 1 => (Len(last[1]) <= 2 /\ Len(last) = 2)
        /\ Len(last) = 2 => (NonEmptyDigits(last[2]) /\ Len(last[2]) <= 3)

FractionMs(digits) ==
    ParseInt(digits) * (CASE Len(digits) = 1 -> 100
                          [] Len(digits) = 2 -> 10
                          [] OTHER -> 1)

\* hours * 3600 + minutes * 60 + seconds + ms / 1000 of a string of the
\* grammar, in milliseconds; absent fields count 0
PositionalMs(s) ==
    LET fields == ColonFields(s)
        n == Len(fields)
        last == SecondsFields(s)
        hours == IF n = 3 THEN ParseInt(fields[1]) ELSE 0
        minutes == IF n >= 2 THEN ParseInt(fields[n - 1]) ELSE 0
        ms == IF Len(last) = 2 THEN FractionMs(last[2]) ELSE 0
    IN  (hours * 3600 + minutes * 60 + ParseInt(last[1])) * MsPerSecond + ms

DecimalSeconds3(s) ==
    /\ Len(Split(s, ".")) = 2
    /\ NonEmptyDigits(Split(s, ".")[1])
    /\ IsDigits(Split(s, ".")[2])
    /\ Len(Split(s, ".")[2]) = 3

\* the seconds of s are written without a superfluous leading zero
NoLeadingZero(s) == Len(Split(s, ".")[1]) = 1 \/ s[1] # "0"

\* C9 as stated: for every accepted string s of the form digits.ddd,
\* formatTime(parseTimeString(s)) = s.
C9_FormatInvertsParse ==
    (pc = "formatted" /\ DecimalSeconds3(parse.args.timeString)) =>
        /\ fmt.out.status = "ok"
        /\ fmt.out.value = parse.args.timeString

\* C9 amended: for every accepted string s of the form digits.ddd whose
\* seconds have no superfluous leading zero, formatTime(parseTimeString(s)) = s.
C9_FormatInvertsParseCanonical ==
    (/\ pc = "formatted"
     /\ DecimalSeconds3(parse.args.timeString)
     /\ NoLeadingZero(parse.args.timeString)) =>
        /\ fmt.out.status = "ok"
        /\ fmt.out.value = parse.args.timeString

\* "25.005" has been parsed and formatted back
C9_Witness ==
    /\ pc = "formatted"
    /\ parse.args.timeString = <<"2", "5", ".", "0", "0", "5">>
    /\ fmt.args.seconds = 250050
    /\ fmt.out.value = <<"2", "5", ".", "0", "0", "5">>

\* the string is digits, a dot and exactly three digits, and reads as the
\* count n of milliseconds with n - 1/2 <= seconds < n + 1/2 (half rounds up)
HalfUpAtThirdDecimal(string, seconds) ==
    /\ DecimalSeconds3(string)
    /\ LET n == ParseInt(Split(string, ".")[1]) * MsPerSecond
                  + ParseInt(Split(string, ".")[2])
       IN  /\ 2 * (n * TicksPerMs - seconds) <= TicksPerMs
           /\ 2 * (seconds - n * TicksPerMs) < TicksPerMs

\* C10: formatTime throws for every seconds < 0 and for every seconds >= 0
\* returns the decimal string with exactly three fraction digits, rounded
\* half-up at the third decimal.
C10_FormatTimeHalfUp ==
    FormatCalled =>
        /\ fmt.args.seconds < 0 => fmt.out.status = "error"
        /\ fmt.args.seconds >= 0 =>
              /\ fmt.out.status = "ok"
              /\ HalfUpAtThirdDecimal(fmt.out.value, fmt.args.seconds)
        /\ fmt.args.seconds = 0 => fmt.out.value = <<"0", ".", "0", "0", "0">>

\* 0.9995 s has been formatted as "1.000"
C10_Witness ==
    /\ FormatCalled
    /\ fmt.args.seconds = 9995
    /\ fmt.out.value = <<"1", ".", "0", "0", "0">>

\* the sign the string starts with, if any
HasPlus(string) == string # <<>> /\ string[1] = "+"
HasMinus(string) == \E i \in 1..Len(string) : string[i] = "-"
Unsigned(string) ==
    IF string # <<>> /\ string[1] \in {"+", "-"} THEN Tail(string) ELSE string

\* C11: formatTimeDifference never throws; the string is the magnitude fixed
\* to three decimals, starts with "+" exactly when the value is > 0, carries
\* a "-" exactly when the value is < 0 and has no sign exactly when it is 0.
C11_DifferenceSign ==
    diff.out.status # "none" =>
        /\ diff.out.status = "ok"
        /\ HasPlus(diff.out.value) <=> diff.args.difference > 0
        /\ HasMinus(diff.out.value) <=> diff.args.difference < 0
        /\ diff.out.value = Unsigned(diff.out.value) <=> diff.args.difference = 0
        /\ HalfUpAtThirdDecimal(Unsigned(diff.out.value),
                                Abs(diff.args.difference))

\* 0.0004 s has been formatted as "+0.000" and so carries a plus sign
C11_Witness ==
    /\ diff.out.status = "ok"
    /\ diff.args.difference = 4
    /\ diff.out.value = <<"+", "0", ".", "0", "0", "0">>

----------------------------------------------------------------------------
(* Properties of validatePaxIndex, checked under SpecData *)

ValidateReturned == val.out.status = "ok"
ValidateThrew == val.out.status = "error"
ValidateCalled == val.out.status # "none"

\* the PAX index validated and the result
Validated == val.args.paxIndex
Result == val.out.value

\* the class occurrences of a PAX index, each a pair of the position of its
\* group and its position in the group
Occurrences(p) ==
    UNION {{<<g, i>> : i \in 1..Len(p.classGroups.items[g].classes)} :
           g \in 1..Len(p.classGroups.items)}
ClassAt(p, o) == p.classGroups.items[o[1]].classes[o[2]]
WellFormed(group) == group.id # "" /\ group.name # ""

\* the occurrences in groups that have an id and a name
Examined(p) == {o \in Occurrences(p) : WellFormed(p.classGroups.items[o[1]])}

\* o comes before q in the order of the traversal
Before(o, q) == o[1] < q[1] \/ (o[1] = q[1] /\ o[2] < q[2])

\* the positions of the messages of a kind
OfKind(messages, kind) ==
    {i \in 1..Len(messages) : messages[i].kind = kind}

OutOfTypicalRange(paxIndex) == paxIndex < 700 \/ paxIndex > 1000
SoundYear(year) == year >= 2000 /\ year <= 2100

\* nothing in the PAX index calls for an error
NoHardProblem(p) ==
    /\ SoundYear(p.year)
    /\ p.indexType \in {"Solo", "ProSolo"}
    /\ p.classGroups.defined
    /\ p.classGroups.items # <<>>
    /\ \A g \in 1..Len(p.classGroups.items) :
          WellFormed(p.classGroups.items[g])
    /\ \A o \in Occurrences(p) :
          /\ ClassAt(p, o).code # ""
          /\ ClassAt(p, o).name # ""
          /\ ClassAt(p, o).paxIndex > 0
          /\ \A q \in Occurrences(p) :
                ClassAt(p, o).code = ClassAt(p, q).code => o = q
    /\ Cardinality(DOMAIN p.classesByCode) = Cardinality(Occurrences(p))

\* C12: isValid is true exactly when errors is empty; warnings do not count:
\* a PAX index whose only finding is one paxIndex outside the typical range
\* is valid and carries one warning.
C12_ValidIffNoErrors ==
    ValidateReturned =>
        /\ Result.isValid <=> Result.errors = <<>>
        /\ (/\ NoHardProblem(Validated)
            /\ Cardinality({o \in Occurrences(Validated) :
                  OutOfTypicalRange(ClassAt(Validated, o).paxIndex)}) = 1)
           => Result.isValid /\ Len(Result.warnings) = 1

\* a PAX index whose only class has paxIndex 1.1 was found valid, with one
\* warning
C12_Witness ==
    /\ ValidateReturned
    /\ NoHardProblem(Validated)
    /\ \E o \in Occurrences(Validated) : ClassAt(Validated, o).paxIndex = 1100
    /\ Result.isValid
    /\ Len(Result.warnings) = 1

\* the codes of a set of occurrences
Codes(p, occurrences) == {ClassAt(p, o).code : o \in occurrences}

\* C13: there is one "Duplicate class code" error for each occurrence of a
\* code after its first, in the same group or in another: as many as the
\* occurrences examined less the distinct codes among them, and for each
\* code one less than its occurrences; any such error makes isValid false.
C13_OneErrorPerRepeat ==
    ValidateReturned =>
        LET duplicates == OfKind(Result.errors, "Duplicate class code")
        IN  /\ Cardinality(duplicates)
                 = Cardinality(Examined(Validated))
                     - Cardinality(Codes(Validated, Examined(Validated)))
            /\ \A code \in Codes(Validated, Examined(Validated)) :
                  Cardinality({i \in duplicates :
                                  Result.errors[i].text = code})
                    = Cardinality({o \in Examined(Validated) :
                                      ClassAt(Validated, o).code = code}) - 1
            /\ \A i \in duplicates :
                  Result.errors[i].text \in Codes(Validated, Examined(Validated))
            /\ duplicates # {} => ~Result.isValid

\* a code occurring once in the first group and twice in the second was
\* reported twice
C13_Witness ==
    /\ ValidateReturned
    /\ \E o, q, r \in Examined(Validated) :
          /\ o[1] = 1 /\ q[1] = 2 /\ r[1] = 2 /\ q # r
          /\ ClassAt(Validated, o).code = ClassAt(Validated, q).code
          /\ ClassAt(Validated, q).code = ClassAt(Validated, r).code
    /\ Cardinality(OfKind(Result.errors, "Duplicate class code")) = 2
    /\ ~Result.isValid

\* C14: after the traversal there is a "Class lookup count mismatch" error
\* exactly when the number of keys of classesByCode differs from classCount,
\* the number of class occurrences in the groups traversed; the error carries
\* both counts and the classCount of the result is that number.
C14_CountMismatch ==
    ValidateReturned =>
        LET mismatch == OfKind(Result.errors, "Class lookup count mismatch")
            keys == Cardinality(DOMAIN Validated.classesByCode)
            occurrences == Cardinality(Examined(Validated))
        IN  /\ Result.classCount = occurrences
            /\ mismatch # {} <=> keys # occurrences
            /\ Cardinality(mismatch) <= 1
            /\ \A i \in mismatch :
                  /\ Result.errors[i].a = keys
                  /\ Result.errors[i].b = occurrences

\* three occurrences of two codes against a lookup of two keys: the error
\* says 2 vs 3
C14_Witness ==
    /\ ValidateReturned
    /\ Cardinality(Examined(Validated)) = 3
    /\ Cardinality(DOMAIN Validated.classesByCode) = 2
    /\ \E i \in OfKind(Result.errors, "Class lookup count mismatch") :
          Result.errors[i].a = 2 /\ Result.errors[i].b = 3

\* the positions of the groups without id or name
Malformed(p) ==
    {g \in 1..Len(p.classGroups.items) : ~WellFormed(p.classGroups.items[g])}

\* the number of messages of a kind, and the number of occurrences examined
\* that call for a message
Count(messages, kind) == Cardinality(OfKind(messages, kind))
CountExamined(p, Calls(_)) ==
    Cardinality({o \in Examined(p) : Calls(ClassAt(p, o))})

\* C15: a group with empty id or name gives one error that carries the
\* group, and its classes are passed over: they are not counted, they get
\* no error or warning of their own and their codes are not remembered;
\* groupCount is the number of groups all the same.
C15_MalformedGroupSkipped ==
    ValidateReturned =>
        LET groups == Validated.classGroups.items
            groupErrors == OfKind(Result.errors,
                                  "Class group missing id or name")
        IN  /\ Cardinality(groupErrors) = Cardinality(Malformed(Validated))
            /\ \A i \in groupErrors :
                  \E g \in Malformed(Validated) :
                      Result.errors[i].group = groups[g]
            /\ \A g \in Malformed(Validated) :
                  Cardinality({i \in groupErrors :
                                  Result.errors[i].group = groups[g]})
                    = Cardinality({h \in Malformed(Validated) :
                                      groups[h] = groups[g]})
            /\ Result.classCount = Cardinality(Examined(Validated))
            /\ Count(Result.errors, "Class missing code or name")
                 = CountExamined(Validated,
                       LAMBDA c : c.code = "" \/ c.name = "")
            /\ Count(Result.errors, "Invalid PAX index")
                 = CountExamined(Validated, LAMBDA c : c.paxIndex <= 0)
            /\ Len(Result.warnings)
                 = CountExamined(Validated,
                       LAMBDA c : OutOfTypicalRange(c.paxIndex))
            /\ Count(Result.errors, "Duplicate class code")
                 = Cardinality(Examined(Validated))
                     - Cardinality(Codes(Validated, Examined(Validated)))
            /\ Result.groupCount = Len(groups)

\* a group without id holding a class of paxIndex 1.1 came before a sound
\* group holding the same code: one error for the group, no warning for the
\* class, no duplicate, one class counted, two groups counted
C15_Witness ==
    /\ ValidateReturned
    /\ Len(Validated.classGroups.items) = 2
    /\ Malformed(Validated) = {1}
    /\ \E o \in Occurrences(Validated), q \in Examined(Validated) :
          /\ o[1] = 1
          /\ ClassAt(Validated, o).paxIndex = 1100
          /\ ClassAt(Validated, o).code = ClassAt(Validated, q).code
    /\ Cardinality(Examined(Validated)) = 1
    /\ Count(Result.errors, "Class group missing id or name") = 1
    /\ Count(Result.errors, "Duplicate class code") = 0
    /\ Result.warnings = <<>>
    /\ Result.classCount = 1
    /\ Result.groupCount = 2

\* the messages of a kind about a code and a paxIndex
About(messages, kind, class) ==
    {i \in OfKind(messages, kind) :
        messages[i].text = class.code /\ messages[i].a = class.paxIndex}

\* the occurrences examined that have the code and paxIndex of a class
Alike(p, class) ==
    {o \in Examined(p) :
        /\ ClassAt(p, o).code = class.code
        /\ ClassAt(p, o).paxIndex = class.paxIndex}

\* C16: a class examined gets the range warning exactly when its paxIndex is
\* below 0.7 or above 1.0 (0.7 and 1.0 get none) and the "Invalid PAX index"
\* error exactly when its paxIndex is 0 or less, so a paxIndex of 0 or less
\* gets both and one in (0, 0.7) or above 1.0 the warning alone.
C16_RangeWarningAndError ==
    ValidateReturned =>
        /\ \A o \in Examined(Validated) :
              LET class == ClassAt(Validated, o)
                  warned == About(Result.warnings,
                                  "PAX index outside typical range", class)
                  refused == About(Result.errors, "Invalid PAX index", class)
                  alike == Cardinality(Alike(Validated, class))
              IN  /\ Cardinality(warned)
                       = IF class.paxIndex < 700 \/ class.paxIndex > 1000
                         THEN alike ELSE 0
                  /\ Cardinality(refused)
                       = IF class.paxIndex <= 0 THEN alike ELSE 0
        /\ \A i \in 1..Len(Result.warnings) :
              /\ Result.warnings[i].kind = "PAX index outside typical range"
              /\ \E o \in Examined(Validated) :
                    i \in About(Result.warnings, Result.warnings[i].kind,
                                ClassAt(Validated, o))
        /\ \A i \in OfKind(Result.errors, "Invalid PAX index") :
              \E o \in Examined(Validated) :
                  i \in About(Result.errors, "Invalid PAX index",
                              ClassAt(Validated, o))

\* classes of paxIndex 0.7, 0 and 1.1 were examined: two warnings, one error
C16_Witness ==
    /\ ValidateReturned
    /\ {ClassAt(Validated, o).paxIndex : o \in Examined(Validated)}
          = {700, 0, 1100}
    /\ Len(Result.warnings) = 2
    /\ Count(Result.errors, "Invalid PAX index") = 1

\* the rules on year, index type and number of groups
YearRefused(p) == ~SoundYear(p.year)
IndexTypeRefused(p) == p.indexType \notin {"Solo", "ProSolo"}
NoGroups(p) == ~p.classGroups.defined \/ p.classGroups.items = <<>>

\* every finding of a result is there: one error for each of the three rules
\* broken, every per-class finding of every class examined, and the count
\* mismatch, if any, after all others
EverythingReported(p, result) ==
    /\ Count(result.errors, "Invalid year") = IF YearRefused(p) THEN 1 ELSE 0
    /\ Count(result.errors, "Invalid index type")
         = IF IndexTypeRefused(p) THEN 1 ELSE 0
    /\ Count(result.errors, "No class groups found")
         = IF NoGroups(p) THEN 1 ELSE 0
    /\ \A o \in Examined(p) :
          LET class == ClassAt(p, o)
              alike == {q \in Examined(p) : ClassAt(p, q) = class}
          IN  /\ Cardinality({i \in OfKind(result.errors,
                                           "Class missing code or name") :
                                 result.errors[i].class = class})
                   = IF class.code = "" \/ class.name = ""
                     THEN Cardinality(alike) ELSE 0
              /\ Cardinality(About(result.errors, "Invalid PAX index", class))
                   = IF class.paxIndex <= 0
                     THEN Cardinality(Alike(p, class)) ELSE 0
              /\ Cardinality(About(result.warnings,
                                   "PAX index outside typical range", class))
                   = IF OutOfTypicalRange(class.paxIndex)
                     THEN Cardinality(Alike(p, class)) ELSE 0
    /\ Count(result.errors, "Duplicate class code")
         = Cardinality(Examined(p)) - Cardinality(Codes(p, Examined(p)))
    /\ \A i \in OfKind(result.errors, "Class lookup count mismatch") :
          i = Len(result.errors)

\* C17: validatePaxIndex reports everything: the rules on year, index type
\* and zero groups each give their error when broken, every class of every
\* well-formed group gets every per-class check, duplicate or not, and the
\* count check runs after the traversal, its error coming last.
C17_ReportEverything ==
    ValidateCalled =>
        /\ ValidateReturned
        /\ EverythingReported(Validated, Result)

\* what holds of C17 for the calls that return
C17_ReportEverythingWhenReturned ==
    ValidateReturned => EverythingReported(Validated, Result)

\* year 3000 and an empty classGroups were both reported
C17_WitnessYearAndNoGroups ==
    /\ ValidateReturned
    /\ Validated.year = 3000
    /\ Validated.classGroups.items = <<>>
    /\ Count(Result.errors, "Invalid year") = 1
    /\ Count(Result.errors, "No class groups found") = 1

\* the structural problems of a PAX index
StructuralProblem(p) ==
    \/ NoGroups(p)
    \/ Malformed(p) # {}
    \/ \E o \in Examined(p) :
          \/ ClassAt(p, o).code = ""
          \/ ClassAt(p, o).name = ""
          \/ ClassAt(p, o).paxIndex <= 0

\* C18: validatePaxIndex returns a result for every PAX index and never
\* throws; missing or empty classGroups, groups without id or name, classes
\* without code or name and a paxIndex of 0 or less are reported as errors,
\* with isValid false.
C18_NeverThrows ==
    ValidateCalled =>
        /\ ValidateReturned
        /\ StructuralProblem(Validated) =>
              Result.errors # <<>> /\ ~Result.isValid

\* what holds of C18 for the calls that return
C18_ProblemsReportedWhenReturned ==
    ValidateReturned =>
        (StructuralProblem(Validated) =>
            Result.errors # <<>> /\ ~Result.isValid)

\* the call on a PAX index without classGroups threw
C18_WitnessThrew ==
    /\ ValidateThrew
    /\ ~Validated.classGroups.defined

----------------------------------------------------------------------------
(* Properties of findClassByCode and getActiveClasses, checked under       *)
(* SpecData                                                                *)

LookupCalled == look.out.status # "none"
LookupReturned == look.out.status = "ok"

\* C19: findClassByCode returns the class stored under exactly the code
\* given, and for a code that is no key of classesByCode, one that differs
\* from a key in letter case included, it returns undefined; it never throws.
C19_ExactKeyOrUndefined ==
    LookupCalled =>
        /\ LookupReturned
        /\ LET classesByCode == look.args.paxIndex.classesByCode
               code == look.args.classCode
           IN  IF code \in DOMAIN classesByCode
               THEN /\ look.out.value.type = "SoloClass"
                    /\ look.out.value.class = classesByCode[code]
               ELSE look.out.value.type = "undefined"

\* what holds of C19 for the codes that name no property of Object.prototype
C19_ExactKeyOrUndefinedOffPrototype ==
    LookupCalled /\ look.args.classCode \notin {"constructor", "toString"} =>
        /\ LookupReturned
        /\ LET classesByCode == look.args.paxIndex.classesByCode
               code == look.args.classCode
           IN  IF code \in DOMAIN classesByCode
               THEN /\ look.out.value.type = "SoloClass"
                    /\ look.out.value.class = classesByCode[code]
               ELSE look.out.value.type = "undefined"

\* "ss" was looked up where "SS" is a key, and undefined came back
C19_WitnessCase ==
    /\ LookupReturned
    /\ look.args.classCode = "ss"
    /\ "SS" \in DOMAIN look.args.paxIndex.classesByCode
    /\ look.out.value.type = "undefined"

\* "constructor", no key, gave something other than undefined
C19_WitnessInherited ==
    /\ LookupReturned
    /\ look.args.classCode = "constructor"
    /\ "constructor" \notin DOMAIN look.args.paxIndex.classesByCode
    /\ look.out.value.type # "undefined"

ActiveReturned == act.out.status = "ok"

\* the occurrences of active classes and the place of one in the result:
\* one more than the active occurrences before it
ActiveOccurrences(p) == {o \in Occurrences(p) : ClassAt(p, o).isActive}
Place(p, o) ==
    1 + Cardinality({q \in ActiveOccurrences(p) : Before(q, o)})

\* C20: getActiveClasses returns the occurrences of classes with isActive
\* true and no others, in the order of the groups and, within a group, of
\* its classes, a repeated class as often as it occurs; with no groups the
\* result is empty.
C20_ActiveInOrder ==
    ActiveReturned =>
        LET p == act.args.paxIndex
        IN  /\ Len(act.out.value) = Cardinality(ActiveOccurrences(p))
            /\ \A o \in ActiveOccurrences(p) :
                  act.out.value[Place(p, o)] = ClassAt(p, o)
            /\ p.classGroups.items = <<>> => act.out.value = <<>>

\* an active class, an inactive one of the same code and the active one
\* again in a second group: the result holds the active one twice
C20_Witness ==
    /\ ActiveReturned
    /\ Len(act.args.paxIndex.classGroups.items) = 2
    /\ Len(act.args.paxIndex.classGroups.items[1].classes) = 2
    /\ Len(act.args.paxIndex.classGroups.items[2].classes) = 1
    /\ Len(act.out.value) = 2
    /\ act.out.value[1] = act.out.value[2]
    /\ ClassAt(act.args.paxIndex, <<1, 1>>) = act.out.value[1]
    /\ ~ClassAt(act.args.paxIndex, <<1, 2>>).isActive

----------------------------------------------------------------------------
(* Properties of the shipped data and of the lookup of a validated index,  *)
(* checked under SpecData                                                  *)

C24_ValidMeansLookupAgrees ==
    (ValidateReturned /\ Result.isValid) =>
        /\ \A o \in Occurrences(Validated) :
              findClassByCode(ClassAt(Validated, o).code, Validated).value
                = [type |-> "SoloClass", class |-> ClassAt(Validated, o),
                   member |-> ""]
        /\ \A key \in DOMAIN Validated.classesByCode :
              \E o \in Occurrences(Validated) :
                  ClassAt(Validated, o).code = key

\* what holds of C24: a valid index has as many keys as classes
C24_ValidMeansCountsAgree ==
    (ValidateReturned /\ Result.isValid) =>
        Cardinality(DOMAIN Validated.classesByCode)
          = Cardinality(Occurrences(Validated))

\* an index whose one class SS is filed under XS was found valid
C24_WitnessRenamedKey ==
    /\ ValidateReturned
    /\ Result.isValid
    /\ Cardinality(Occurrences(Validated)) = 1
    /\ ClassAt(Validated, <<1, 1>>).code = "SS"
    /\ DOMAIN Validated.classesByCode = {"XS"}

----------------------------------------------------------------------------
(* Properties of the calculator store, checked under SpecCalculator *)

\* calculate has returned or thrown, having started from the state before
CalculateDone == pc = "calculate"
CalculateThrew == CalculateDone /\ conv.out.status = "error"
CalculateReturned == CalculateDone /\ conv.out.status = "ok"
Rejected(args) ==
    \/ args.inputTime <= 0
    \/ args.inputClass.paxIndex <= 0
    \/ args.outputClass.paxIndex <= 0

\* C22: a call of calculator.calculate with arguments that calculatePaxTime
\* rejects (inputTime <= 0 or a paxIndex <= 0) throws the error to the
\* caller and leaves the store with that error's message as error,
\* isCalculating false, and lastResult, currentTime and the last calculation
\* in localStorage as they were before the call; a call that succeeds leaves
\* lastResult equal to the result returned, no error and isCalculating false.
C22_CalculateOutcome ==
    [][(pc = "calculating" /\ pc' = "calculate") =>
          /\ Rejected(conv.args) <=> conv'.out.status = "error"
          /\ ~calculator'.isCalculating
          /\ conv'.out.status = "error" =>
                /\ calculator'.error = Some(conv'.out.error)
                /\ conv'.out.error \in {ErrInputTime, ErrPaxIndices}
                /\ calculator'.lastResult = calculator.lastResult
                /\ calculator'.currentTime = calculator.currentTime
                /\ storage' = storage
          /\ conv'.out.status = "ok" =>
                /\ calculator'.lastResult = Some(conv'.out.value)
                /\ ~calculator'.error.defined]_vars

\* a calculate that was refused after one that succeeded and a time entered:
\* the earlier result is still there, in the store and in localStorage
C22_Witness ==
    /\ CalculateThrew
    /\ calculator.error = Some(ErrPaxIndices)
    /\ calculator.lastResult.defined
    /\ calculator.lastResult.value.calculatedAt = "t1"
    /\ calculator.currentTime = SomeTime
    /\ storage.available
    /\ storage.items[LAST_CALCULATION] = calculator.lastResult

\* C27: after any sequence of setTime, calculate, clear and clearError the
\* store has an error exactly when the last operation was a calculate that
\* failed; setTime and clearError leave lastResult as it was, clearError
\* currentTime too.
C27_ErrorIffLastCalculateFailed ==
    /\ [](pc # "calculating" => (calculator.error.defined <=> CalculateThrew))
    /\ [][/\ pc' \in {"setTime", "clearError"} =>
                calculator'.lastResult = calculator.lastResult
          /\ pc' = "clearError" =>
                calculator'.currentTime = calculator.currentTime]_vars

\* clearError after a calculate that failed: the error is gone, the result
\* and the time entered are still there
C27_Witness ==
    /\ pc = "clearError"
    /\ ~calculator.error.defined
    /\ calculator.lastResult.defined
    /\ calculator.currentTime = SomeTime

\* setTime after a calculate that succeeded
C27_WitnessSetTime ==
    /\ pc = "setTime"
    /\ calculator.lastResult.defined
    /\ calculator.currentTime = BlankTime

\* C28: where there is a localStorage, after any sequence of setTime,
\* calculate, clear and clearError the last calculation in localStorage is
\* the lastResult of the store (both absent, or the same result), so that the
\* store next created starts with the lastResult the store before it ended
\* with.
C28_StorageHoldsLastResult ==
    (storage.available /\ pc # "calculating") =>
        storage.items[LAST_CALCULATION] = calculator.lastResult

\* the same under the store's own creation: the store created starts with
\* the lastResult the store before it had
C28_RecreatedStartsWithLastResult ==
    [][(storage.available /\ pc' = "createCalculatorStore") =>
          calculator'.lastResult = calculator.lastResult]_vars

\* what holds of C28: the last calculation in localStorage is the result of
\* the last calculate that succeeded, which is the lastResult of the store
\* unless clear was called since
C28_StorageHoldsLastResultOrMore ==
    (storage.available /\ pc # "calculating" /\ calculator.lastResult.defined)
        => storage.items[LAST_CALCULATION] = calculator.lastResult

\* clear after a calculate that succeeded: the store has no lastResult, and
\* localStorage has the result still
C28_WitnessClear ==
    /\ pc = "clear"
    /\ storage.available
    /\ ~calculator.lastResult.defined
    /\ storage.items[LAST_CALCULATION].defined

----------------------------------------------------------------------------
(* Properties of the derived stores, checked under SpecSelection *)

\* the preferred code is a key of the mapping of the current PAX index
Resolves(code) ==
    /\ currentPaxIndex.defined
    /\ code.defined
    /\ code.value \in DOMAIN currentPaxIndex.value.classesByCode
NonBlank(string) == \E i \in DOMAIN string : string[i] \notin WhiteSpace
OffPrototype(code) == ~code.defined \/ code.value \notin ObjectPrototypeKeys

\* C23: canCalculate is true exactly when preferences.inputClass and
\* preferences.outputClass both resolve to a class of the current PAX index,
\* calculator.currentTime is not blank and isCalculating is false, after any
\* sequence of updates of the preferences, the PAX data and the calculator.
C23_CanCalculateExactly ==
    canCalculate <=>
        /\ Resolves(preferences.inputClass)
        /\ Resolves(preferences.outputClass)
        /\ NonBlank(calculator.currentTime)
        /\ ~calculator.isCalculating

\* what holds of C23: the same for preferred codes that name no member of
\* Object.prototype
C23_CanCalculateExactlyOffPrototype ==
    (OffPrototype(preferences.inputClass)
       /\ OffPrototype(preferences.outputClass)) =>
        (canCalculate <=>
            /\ Resolves(preferences.inputClass)
            /\ Resolves(preferences.outputClass)
            /\ NonBlank(calculator.currentTime)
            /\ ~calculator.isCalculating)

\* canCalculate is true with the input class 'constructor', a code of no
\* class of the current index
C23_WitnessInherited ==
    /\ canCalculate
    /\ preferences.inputClass = Some("constructor")
    /\ ~Resolves(preferences.inputClass)

\* canCalculate is false for the calculation going on alone, and for the
\* blank time alone
C23_WitnessCalculating ==
    /\ ~canCalculate
    /\ Resolves(preferences.inputClass)
    /\ Resolves(preferences.outputClass)
    /\ NonBlank(calculator.currentTime)
    /\ calculator.isCalculating
C23_WitnessBlank ==
    /\ ~canCalculate
    /\ Resolves(preferences.inputClass)
    /\ Resolves(preferences.outputClass)
    /\ calculator.currentTime = BlankTime
    /\ ~calculator.isCalculating

\* the places of paxData.indices holding an index of the preferred type
OfPreferredType ==
    {i \in DOMAIN paxData.indices :
        paxData.indices[i].indexType = preferences.indexType}
Pinned ==
    {i \in OfPreferredType :
        paxData.indices[i].version = preferences.pinnedVersion.value}

\* C25: currentPaxIndex is, with autoUpdate, the index of the preferred type
\* of the greatest year among paxData.indices whatever pinnedVersion and
\* currentIndex are; without autoUpdate and with a pinnedVersion, the index
\* of the preferred type and of that version, absent if there is none;
\* otherwise paxData.currentIndex if it is of the preferred type and absent
\* if not.  It is always absent or of the preferred type.
C25_CurrentPaxIndexSelection ==
    /\ preferences.autoUpdate =>
          IF OfPreferredType = {} THEN ~currentPaxIndex.defined
          ELSE /\ currentPaxIndex.defined
               /\ \E i \in OfPreferredType :
                     /\ currentPaxIndex.value = paxData.indices[i]
                     /\ \A j \in OfPreferredType :
                           paxData.indices[j].year <= paxData.indices[i].year
    /\ (~preferences.autoUpdate /\ TruthyString(preferences.pinnedVersion)) =>
          IF Pinned = {} THEN ~currentPaxIndex.defined
          ELSE /\ currentPaxIndex.defined
               /\ \E i \in Pinned : currentPaxIndex.value = paxData.indices[i]
    /\ (~preferences.autoUpdate /\ ~TruthyString(preferences.pinnedVersion)) =>
          IF /\ paxData.currentIndex.defined
             /\ paxData.currentIndex.value.indexType = preferences.indexType
          THEN currentPaxIndex = paxData.currentIndex
          ELSE ~currentPaxIndex.defined
    /\ currentPaxIndex.defined =>
          currentPaxIndex.value.indexType = preferences.indexType

\* with autoUpdate the Solo index of 2024 is current although it comes
\* second in the list, a version of 2023 is pinned and the index of 2023 is
\* the currentIndex
C25_Witness ==
    /\ preferences.autoUpdate
    /\ preferences.pinnedVersion = Some("2023.1.0")
    /\ paxData.currentIndex = Some(solo2023)
    /\ paxData.indices = <<solo2023, solo2024, prosolo2023>>
    /\ currentPaxIndex = Some(solo2024)

\* the pinned version of the preferred type, and the currentIndex that is
\* not of the preferred type
C25_WitnessPinned ==
    /\ ~preferences.autoUpdate
    /\ preferences.indexType = "ProSolo"
    /\ preferences.pinnedVersion = Some("2023.1.0")
    /\ currentPaxIndex = Some(prosolo2023)
C25_WitnessFallback ==
    /\ ~preferences.autoUpdate
    /\ preferences.indexType = "ProSolo"
    /\ ~TruthyString(preferences.pinnedVersion)
    /\ paxData.currentIndex = Some(solo2023)
    /\ paxData.indices # <<>>
    /\ ~currentPaxIndex.defined

\* the selected class is absent or the class held under the preferred code
AbsentOrMapped(selected, code) ==
    \/ selected = Undefined
    \/ /\ Resolves(code)
       /\ selected = [type |-> "SoloClass",
                      class |-> currentPaxIndex.value.classesByCode[code.value],
                      member |-> ""]

\* C29: in every state reached by updates of paxData and preferences,
\* selectedInputClass and selectedOutputClass are each absent or the class
\* the mapping of the current PAX index holds under the preferred code; when
\* the current index has no such code (after a change of the preferred
\* indexType or of the indices), the selected class is absent and
\* canCalculate false, and such a change leaves the preferred codes as they
\* were.
C29_SelectedClassFollowsIndex ==
    /\ [](/\ AbsentOrMapped(selectedInputClass, preferences.inputClass)
          /\ AbsentOrMapped(selectedOutputClass, preferences.outputClass)
          /\ ~Resolves(preferences.inputClass) =>
                (selectedInputClass = Undefined /\ ~canCalculate)
          /\ ~Resolves(preferences.outputClass) =>
                (selectedOutputClass = Undefined /\ ~canCalculate))
    /\ [][(\/ paxData'.indices # paxData.indices
           \/ paxData'.currentIndex # paxData.currentIndex
           \/ preferences'.indexType # preferences.indexType) =>
              (pc' # "reset" =>
                  /\ preferences'.inputClass = preferences.inputClass
                  /\ preferences'.outputClass = preferences.outputClass)]_vars

\* what holds of C29: the same for preferred codes that name no member of
\* Object.prototype
C29_SelectedClassFollowsIndexOffPrototype ==
    (OffPrototype(preferences.inputClass)
       /\ OffPrototype(preferences.outputClass)) =>
        /\ AbsentOrMapped(selectedInputClass, preferences.inputClass)
        /\ AbsentOrMapped(selectedOutputClass, preferences.outputClass)
        /\ ~Resolves(preferences.inputClass) =>
              (selectedInputClass = Undefined /\ ~canCalculate)
        /\ ~Resolves(preferences.outputClass) =>
              (selectedOutputClass = Undefined /\ ~canCalculate)

\* the selected input class is a member of Object.prototype
C29_WitnessInherited ==
    /\ preferences.inputClass = Some("constructor")
    /\ selectedInputClass = Inherited("constructor")

\* the preferred code AS, a class of the Solo index of 2024, has no class in
\* the current index
C29_WitnessLacking ==
    /\ pc = "updatePreference"
    /\ preferences.indexType = "ProSolo"
    /\ preferences.inputClass = Some("AS")
    /\ currentPaxIndex = Some(prosolo2023)
    /\ selectedInputClass = Undefined
    /\ Truthy(selectedOutputClass)
    /\ NonBlank(calculator.currentTime)

----------------------------------------------------------------------------
(* Properties of concurrent calls, checked under SpecCalls *)

\* what the call of a caller gives when nothing else runs
Alone(caller) ==
    CASE caller.op = "validatePaxIndex" -> validatePaxIndex(dataset)
      [] caller.op = "findClassByCode" ->
            findClassByCode(caller.classCode, dataset)
      [] caller.op = "getActiveClasses" -> getActiveClasses(dataset)

\* C26: validatePaxIndex, findClassByCode and getActiveClasses never change
\* the PAX index they are given and keep nothing from one call to the next
\* (the codes seen and the class count of validatePaxIndex start afresh in
\* every call): however the calls of concurrent callers on one PAX index
\* interleave, each returns what it returns when run alone.
C26_CallsIndependent ==
    /\ [](\A i \in DOMAIN callers :
             callers[i].status = "returned" => callers[i].out = Alone(callers[i]))
    /\ [][dataset' = dataset]_vars

\* two calls of validatePaxIndex on the index with SS in two groups, the
\* first returned with the duplicate and the count mismatch while the second
\* is between the groups with the codes it has seen itself
C26_Witness ==
    /\ dataset = RepeatedAcrossGroups
    /\ callers[1].op = "validatePaxIndex"
    /\ callers[1].status = "returned"
    /\ Len(callers[1].out.value.errors) = 2
    /\ callers[1].out.value.errors[1].kind = "Duplicate class code"
    /\ callers[1].out.value.classCount = 3
    /\ callers[2].op = "validatePaxIndex"
    /\ callers[2].status = "running"
    /\ callers[2].g = 2
    /\ callers[2].v.seenCodes = {"SS", "AS"}

\* both callers are in the loop of validatePaxIndex, each at its own group
C26_WitnessBothRunning ==
    /\ dataset = prosolo2024
    /\ callers[1].status = "running"
    /\ callers[2].status = "running"
    /\ callers[1].g = 5
    /\ callers[2].g = 2
    /\ callers[1].v.classCount > callers[2].v.classCount
    /\ callers[2].v.classCount > 0

====
